---------------------------- MODULE Spec2Model ----------------------------
(***************************************************************************)
(* State-machine model of the MemWatch dashboard server                    *)
(* (class MemWatchDashboard): the per-connection message handlers, the     *)
(* chunked-snapshot reassembly, the comparison sessions, the liveness      *)
(* sweep and the fan-out to dashboard subscribers; and of the upload and  *)
(* listing routes of simple-http-server.js, a process of its own.          *)
(*                                                                         *)
(* One action models one handler run to its next suspension point.  The    *)
(* variables `frames', `out', `last', `statusLog' and `sender' (inside a   *)
(* session object), `arrivals', `completions', `ingested', `holders',      *)
(* `nframes', `tried', `raised', `response' and `acked' are history       *)
(* variables: they record what the handlers sent, published, answered and  *)
(* received and never influence a handler.                                 *)
(***************************************************************************)
EXTENDS Integers, Sequences, FiniteSets, TLC

(***************************************************************************)
(* Bounds of the model.                                                    *)
(***************************************************************************)
MaxConns == 3
MaxChunks == 3
MaxFrames == 4
MaxFramesSnap == 5
MaxFramesRing == 3
MaxFramesLive == 4
MaxFramesSubs == 4
MaxTicks == 4
MaxTicksAll == 2
MaxFramesCodec == 4
MaxRequests == 4
MaxClock == 1
MaxFramesBeat == 5
MaxFramesAgain == 4
MaxFramesStray == 4
MaxFramesInitial == 6
MaxFramesQuery == 3
MaxLimit == 2

(***************************************************************************)
(* Program constants.                                                      *)
(***************************************************************************)
MetricCap == 1000
AlertCap == 100
TimeoutMs == 60000
SweepPeriodMs == 30000
CriticalGrowthMB == 50
RecentAlertLimit == 10
DefaultLimit == 100

Conns == 1 .. MaxConns
BaseNames == {"svc-a", "svc-b"}
SnapshotIds == {"before_1", "after_2"}
Filenames == {"b.heapsnapshot", "a.heapsnapshot"}
ChunkData == {"x", "y"}

VARIABLES
  conn,               \* per connection: "new", "open", "closing" (readyState not OPEN, close event not yet run), "closed"
  services,           \* this.services: name -> ServiceInfo
  svcOrder,           \* insertion order of this.services (Map iteration order)
  metrics,            \* this.metrics: name -> MetricData[]
  alerts,             \* this.alerts
  alertCounter,       \* this.alertCounter
  dashboardClients,   \* this.dashboardClients
  snapshots,          \* this.snapshots: id -> SnapshotData
  comparisonSessions, \* this.comparisonSessions: session id -> index of the session object
  sessionObjs,        \* the ComparisonSession objects, in creation order
  files,              \* ./dashboard-snapshots: filename -> content
  frames,             \* per connection: the frames the server sent on it
  out,                \* the events handed to broadcastToClients by the last step
  now,                \* Date.now()
  lastSweep,          \* the instant the setInterval callback last ran
  last,               \* the handler that ran last and its key arguments
  arrivals,           \* per snapshot id: <<chunkIndex, data>> received since its last announcement
  completions,        \* per snapshot id: snapshot-complete messages handled since its last announcement
  ingested,           \* per service: every metric sample ever ingested, in arrival order
  holders,            \* per service: the connections that registered it, in order
  nframes,            \* number of frames and events handled so far
  tried,              \* per broadcastToClients call of the last step: the clients it called send on, and those whose send raised
  raised,             \* the clients on which a send of broadcastToClients has raised so far
  scratch,            \* os.tmpdir(): the scratch files of the analyses that exist
  httpSnapshots,      \* simple-http-server.js: snapshots, id -> record
  httpOrder,          \* simple-http-server.js: insertion order of snapshots
  httpFiles,          \* simple-http-server.js: ./dashboard-snapshots/<service>/<filename> -> content
  response,           \* the response to the last HTTP request (simple-http-server.js, or a REST route of the dashboard)
  acked               \* simple-http-server.js: the uploads answered with success, in order

vars == <<conn, services, svcOrder, metrics, alerts, alertCounter, dashboardClients,
          snapshots, comparisonSessions, sessionObjs, files, frames, out, now,
          lastSweep, last, arrivals, completions, ingested, holders, nframes, tried,
          raised, scratch, httpSnapshots, httpOrder, httpFiles, response, acked>>

\* The state of simple-http-server.js, a process of its own.
httpVars == <<httpSnapshots, httpOrder, httpFiles, response, acked>>

(***************************************************************************)
(* Helpers.                                                                *)
(***************************************************************************)

\* Map.set(k, v) on a map modelled as a function with a growing domain.
MapSet(m, k, v) == [x \in (DOMAIN m) \cup {k} |-> IF x = k THEN v ELSE m[x]]

\* Map.get(k) || dflt
MapGetOr(m, k, dflt) == IF k \in DOMAIN m THEN m[k] ELSE dflt

\* Array.prototype.slice(-n) for n >= 1
SliceLast(s, n) == IF Len(s) <= n THEN s ELSE SubSeq(s, Len(s) - n + 1, Len(s))

RECURSIVE Reverse(_)
Reverse(s) == IF s = <<>> THEN <<>> ELSE Append(Reverse(Tail(s)), Head(s))

\* `capture-${serviceName}`
CaptureName(n) == "capture-" \o n

Names == BaseNames \cup {CaptureName(n) : n \in BaseNames}


(***************************************************************************)
(* Publisher: broadcastToClients.  A step threads the record               *)
(* [clients, frames, out] through its broadcasts, in program order.        *)
(* `fail' is the set of clients whose send raises in this call.            *)
(***************************************************************************)
Bus0 ==
  [clients |-> dashboardClients, frames |-> frames, out |-> <<>>, tried |-> <<>>,
   raised |-> raised]

OpenClients == {c \in dashboardClients : conn[c] = "open"}

\* Mutant: the catch block logs the error and keeps the client.
BroadcastKeepsFailed(bus, message, fail) ==
  LET targets == {c \in bus.clients : conn[c] = "open"}
  IN [clients |-> bus.clients,
      frames  |-> [c \in Conns |-> IF c \in targets \ fail
                                   THEN Append(bus.frames[c], message)
                                   ELSE bus.frames[c]],
      out     |-> Append(bus.out, message),
      tried   |-> Append(bus.tried, [clients |-> targets, raised |-> targets \cap fail]),
      raised  |-> bus.raised \cup (targets \cap fail)]

\* Mutant: a frame is written twice to each client.
BroadcastSendsTwice(bus, message, fail) ==
  LET targets == {c \in bus.clients : conn[c] = "open"}
  IN [clients |-> bus.clients \ (targets \cap fail),
      frames  |-> [c \in Conns |-> IF c \in targets \ fail
                                   THEN Append(Append(bus.frames[c], message), message)
                                   ELSE bus.frames[c]],
      out     |-> Append(bus.out, message),
      tried   |-> Append(bus.tried, [clients |-> targets, raised |-> targets \cap fail]),
      raised  |-> bus.raised \cup (targets \cap fail)]

BroadcastToClients(bus, message, fail) ==
  LET targets == {c \in bus.clients : conn[c] = "open"}
  IN [clients |-> bus.clients \ (targets \cap fail),
      frames  |-> [c \in Conns |-> IF c \in targets \ fail
                                   THEN Append(bus.frames[c], message)
                                   ELSE bus.frames[c]],
      out     |-> Append(bus.out, message),
      tried   |-> Append(bus.tried, [clients |-> targets, raised |-> targets \cap fail]),
      raised  |-> bus.raised \cup (targets \cap fail)]

\* A step that calls no broadcastToClients.
NoSends ==
  /\ tried' = <<>>
  /\ raised' = raised

SetBus(bus) ==
  /\ dashboardClients' = bus.clients
  /\ frames' = bus.frames
  /\ out' = bus.out
  /\ tried' = bus.tried
  /\ raised' = bus.raised

\* A frame or event was handled: the bookkeeping of the history variables.
Handled(op, c, key) ==
  /\ last' = [op |-> op, conn |-> c, key |-> key]
  /\ nframes' = nframes + 1

\* A timer callback or a resumed handler ran: no frame was consumed.
Internal(op, key) ==
  /\ last' = [op |-> op, conn |-> 0, key |-> key]
  /\ nframes' = nframes

(***************************************************************************)
(* Snapshot reassembly.  A chunk table is a JavaScript array: a sequence   *)
(* of slots, a slot never assigned being a hole.                           *)
(***************************************************************************)
Hole == [has |-> FALSE, val |-> ""]

\* Mutant: chunks.push(data), the chunk stored in arrival order.
StoreChunkPush(chunks, chunkIndex, data) == Append(chunks, [has |-> TRUE, val |-> data])

\* Mutant: chunks[chunkIndex] += data, a replayed chunk concatenated to the stored one.
StoreChunkConcat(chunks, chunkIndex, data) ==
  LET n == IF chunkIndex + 1 > Len(chunks) THEN chunkIndex + 1 ELSE Len(chunks)
  IN [i \in 1 .. n |->
        IF i = chunkIndex + 1
        THEN [has |-> TRUE,
              val |-> (IF i <= Len(chunks) /\ chunks[i].has THEN chunks[i].val ELSE "") \o data]
        ELSE IF i <= Len(chunks) THEN chunks[i] ELSE Hole]

\* chunks[chunkIndex] = data  (chunkIndex counts from 0; the array grows)
StoreChunk(chunks, chunkIndex, data) ==
  LET n == IF chunkIndex + 1 > Len(chunks) THEN chunkIndex + 1 ELSE Len(chunks)
  IN [i \in 1 .. n |-> IF i = chunkIndex + 1 THEN [has |-> TRUE, val |-> data]
                       ELSE IF i <= Len(chunks) THEN chunks[i] ELSE Hole]

\* chunks.join(''): index order, a hole contributing the empty string
RECURSIVE JoinChunks(_)
JoinChunks(chunks) ==
  IF chunks = <<>> THEN ""
  ELSE (IF Head(chunks).has THEN Head(chunks).val ELSE "") \o JoinChunks(Tail(chunks))

\* snapshot.receivedChunks = (snapshot.receivedChunks || 0) + 1
CountChunk(snapshot, chunkIndex) == snapshot.receivedChunks + 1

\* Math.round((received / total) * 100), for received >= 0 and total >= 1
Progress(received, total) == (200 * received + total) \div (2 * total)

\* Mutant: an announcement for an id that exists keeps the chunk table and
\* the count of the stored record.
HandleSnapshotMetadataMerges(c, id, filename, totalChunks, fail) ==
  /\ conn[c] = "open"
  /\ snapshots' = MapSet(snapshots, id,
        [id |-> id, filename |-> filename, totalChunks |-> totalChunks,
         hasChunks |-> TRUE,
         chunks |-> IF id \in DOMAIN snapshots THEN snapshots[id].chunks ELSE <<>>,
         receivedChunks |-> IF id \in DOMAIN snapshots THEN snapshots[id].receivedChunks
                            ELSE 0,
         hasData |-> FALSE, data |-> ""])
  /\ SetBus(BroadcastToClients(Bus0, [type |-> "snapshotStarted", id |-> id], fail))
  /\ arrivals' = [arrivals EXCEPT ![id] = <<>>]
  /\ completions' = [completions EXCEPT ![id] = 0]
  /\ Handled("snapshot-metadata", c, id)
  /\ UNCHANGED <<conn, services, svcOrder, metrics, alerts, alertCounter,
                 comparisonSessions, sessionObjs, files, now, lastSweep, ingested, holders, scratch, httpVars>>

\* handleSnapshotMetadata.  The announcement carries id, filename and
\* totalChunks; serviceName, containerId, phase, timestamp and size are
\* copied through unread and are left out.
HandleSnapshotMetadata(c, id, filename, totalChunks, fail) ==
  /\ conn[c] = "open"
  /\ snapshots' = MapSet(snapshots, id,
        [id |-> id, filename |-> filename, totalChunks |-> totalChunks,
         hasChunks |-> TRUE, chunks |-> <<>>, receivedChunks |-> 0,
         hasData |-> FALSE, data |-> ""])
  /\ SetBus(BroadcastToClients(Bus0, [type |-> "snapshotStarted", id |-> id], fail))
  /\ arrivals' = [arrivals EXCEPT ![id] = <<>>]
  /\ completions' = [completions EXCEPT ![id] = 0]
  /\ Handled("snapshot-metadata", c, id)
  /\ UNCHANGED <<conn, services, svcOrder, metrics, alerts, alertCounter,
                 comparisonSessions, sessionObjs, files, now, lastSweep, ingested, holders, scratch, httpVars>>

\* Mutant: this.snapshots.get(snapshotId) || {}, a chunk for an id that was
\* never announced starts a record for it.
HandleSnapshotChunkUpserts(c, id, chunkIndex, totalChunks, data, fail) ==
  /\ conn[c] = "open"
  /\ LET snapshot == IF id \in DOMAIN snapshots THEN snapshots[id]
                     ELSE [id |-> id, filename |-> "", totalChunks |-> totalChunks,
                           hasChunks |-> FALSE, chunks |-> <<>>, receivedChunks |-> 0,
                           hasData |-> FALSE, data |-> ""]
         init == IF snapshot.hasChunks THEN snapshot
                 ELSE [snapshot EXCEPT !.hasChunks = TRUE,
                                       !.chunks = [i \in 1 .. totalChunks |-> Hole],
                                       !.totalChunks = totalChunks,
                                       !.receivedChunks = 0]
         stored == [init EXCEPT !.chunks = StoreChunk(init.chunks, chunkIndex, data),
                                !.receivedChunks = CountChunk(init, chunkIndex)]
     IN /\ snapshots' = MapSet(snapshots, id, stored)
        /\ SetBus(BroadcastToClients(Bus0,
              [type |-> "snapshotProgress", id |-> id,
               progress |-> Progress(stored.receivedChunks, totalChunks),
               receivedChunks |-> stored.receivedChunks,
               totalChunks |-> totalChunks], fail))
        /\ arrivals' = [arrivals EXCEPT ![id] = Append(@, <<chunkIndex, data>>)]
  /\ Handled("snapshot-chunk", c, id)
  /\ UNCHANGED <<conn, services, svcOrder, metrics, alerts, alertCounter,
                 comparisonSessions, sessionObjs, files, now, lastSweep,
                 completions, ingested, holders, scratch, httpVars>>

\* handleSnapshotChunk
HandleSnapshotChunk(c, id, chunkIndex, totalChunks, data, fail) ==
  /\ conn[c] = "open"
  /\ IF id \notin DOMAIN snapshots
     THEN \* Snapshot not found: logged, dropped
          /\ out' = <<>>
          /\ NoSends
          /\ UNCHANGED <<snapshots, dashboardClients, frames, arrivals>>
     ELSE LET snapshot == snapshots[id]
              \* if (!snapshot.chunks) { chunks = new Array(totalChunks); ... }
              init == IF snapshot.hasChunks THEN snapshot
                      ELSE [snapshot EXCEPT !.hasChunks = TRUE,
                                            !.chunks = [i \in 1 .. totalChunks |-> Hole],
                                            !.totalChunks = totalChunks,
                                            !.receivedChunks = 0]
              stored == [init EXCEPT !.chunks = StoreChunk(init.chunks, chunkIndex, data),
                                     !.receivedChunks = CountChunk(init, chunkIndex)]
          IN /\ snapshots' = [snapshots EXCEPT ![id] = stored]
             /\ SetBus(BroadcastToClients(Bus0,
                   [type |-> "snapshotProgress", id |-> id,
                    progress |-> Progress(stored.receivedChunks, totalChunks),
                    receivedChunks |-> stored.receivedChunks,
                    totalChunks |-> totalChunks], fail))
             /\ arrivals' = [arrivals EXCEPT ![id] = Append(@, <<chunkIndex, data>>)]
  /\ Handled("snapshot-chunk", c, id)
  /\ UNCHANGED <<conn, services, svcOrder, metrics, alerts, alertCounter,
                 comparisonSessions, sessionObjs, files, now, lastSweep,
                 completions, ingested, holders, scratch, httpVars>>

\* The guard of handleSnapshotComplete: what makes it materialize the payload.
CanComplete(id) == id \in DOMAIN snapshots /\ snapshots[id].hasChunks

\* The error frame of the message handler's catch block,
\* { error: 'Invalid JSON message' }.  The frame has no type field; the
\* model tags it "error" so that every frame sent carries a type.
ErrorFrame == [type |-> "error", error |-> "Invalid JSON message"]

\* handleSnapshotComplete.  fsOk: the directory check and writeFileSync
\* succeed; otherwise the exception reaches the message handler's catch,
\* which answers the producer with the error frame.
HandleSnapshotComplete(c, id, fsOk, fail) ==
  /\ conn[c] = "open"
  /\ IF ~CanComplete(id)
     THEN \* Snapshot not found or incomplete: logged, dropped
          /\ out' = <<>>
          /\ NoSends
          /\ UNCHANGED <<snapshots, dashboardClients, frames, files, completions>>
     ELSE LET payload == JoinChunks(snapshots[id].chunks)
          IN /\ snapshots' = [snapshots EXCEPT ![id].hasData = TRUE, ![id].data = payload]
             /\ completions' = [completions EXCEPT ![id] = @ + 1]
             /\ IF fsOk
                THEN /\ files' = MapSet(files, snapshots[id].filename, payload)
                     /\ SetBus(BroadcastToClients(Bus0,
                           [type |-> "snapshotCompleted", id |-> id,
                            filepath |-> snapshots[id].filename], fail))
                ELSE /\ files' = files
                     /\ dashboardClients' = dashboardClients
                     /\ frames' = [frames EXCEPT ![c] = Append(@, ErrorFrame)]
                     /\ out' = <<>>
                     /\ NoSends
  /\ Handled("snapshot-complete", c, id)
  /\ UNCHANGED <<conn, services, svcOrder, metrics, alerts, alertCounter,
                 comparisonSessions, sessionObjs, now, lastSweep, arrivals, ingested, holders, scratch, httpVars>>


(***************************************************************************)
(* Comparison sessions.  The analyzers are external: what they return is   *)
(* an input of the step that resumes the handler after its await.          *)
(***************************************************************************)
Abs(x) == IF x < 0 THEN -x ELSE x

\* The analyzer threshold in MB: threshold / (1024 * 1024), threshold = 1024 * 1024
ThresholdMB == (1024 * 1024) \div (1024 * 1024)

\* MemlabHeapAnalyzer.generateSummary: the summary has no totalGrowthMB field.
MemlabSummary(totalLeaksMB, leakCount) ==
  [suspiciousGrowth |-> (totalLeaksMB > ThresholdMB \/ leakCount > 3),
   hasTotalGrowthMB |-> FALSE, totalGrowthMB |-> 0]

\* HeapSnapshotAnalyzer.generateSummary (the fallback analyzer)
BasicSummary(totalGrowthMB) ==
  [suspiciousGrowth |-> (Abs(totalGrowthMB) > ThresholdMB),
   hasTotalGrowthMB |-> TRUE, totalGrowthMB |-> totalGrowthMB]

\* What an awaited analyzer settles with: the primary analyzer's result,
\* the fallback analyzer's result, or a rejection.
Outcomes ==
  {[kind |-> "primary", summary |-> MemlabSummary(p[1], p[2])] :
      p \in {<<0, 0>>, <<2, 1>>, <<0, 4>>}}
  \cup {[kind |-> "fallback", summary |-> BasicSummary(g)] : g \in {0, 10, 50, 60}}
  \cup {[kind |-> "error", summary |-> BasicSummary(0)]}

NoResult == [kind |-> "none", summary |-> BasicSummary(0)]

\* severity: analysis.summary.totalGrowthMB > 50 ? 'critical' : 'warning'
GrowthSeverity(totalGrowthMB) ==
  IF totalGrowthMB > CriticalGrowthMB THEN "critical" ELSE "warning"

\* `comparison_${serviceName}_${Date.now()}`
SessionId(serviceName, t) == <<"comparison", serviceName, t>>

\* beforeSnapshot?.data as a condition: the snapshot exists and its data is
\* a non-empty string
DataAvailable(id) ==
  /\ id \in DOMAIN snapshots
  /\ snapshots[id].hasData
  /\ snapshots[id].data # ""

\* session.status = status
SetStatus(session, status) ==
  [session EXCEPT !.status = status, !.statusLog = Append(@, status)]

\* handleComparisonReady, up to its first await
HandleComparisonReady(c, serviceName, beforeSnapshotId, afterSnapshotId, fail) ==
  /\ conn[c] = "open"
  /\ LET sessionId == SessionId(serviceName, now)
         k == Len(sessionObjs) + 1
         session == [id |-> sessionId, serviceName |-> serviceName,
                     beforeSnapshotId |-> beforeSnapshotId,
                     afterSnapshotId |-> afterSnapshotId,
                     status |-> "waiting", statusLog |-> <<"waiting">>,
                     hasResult |-> FALSE, result |-> NoResult, createdAt |-> now,
                     sender |-> c, stage |-> "none", primary |-> "none",
                     fallbacks |-> 0]
     IN /\ comparisonSessions' = MapSet(comparisonSessions, sessionId, k)
        /\ IF DataAvailable(beforeSnapshotId) /\ DataAvailable(afterSnapshotId)
           THEN /\ sessionObjs' = Append(sessionObjs,
                      [SetStatus(session, "analyzing") EXCEPT !.stage = "importing"])
                /\ SetBus(BroadcastToClients(Bus0,
                      [type |-> "comparisonStarted", sessionId |-> sessionId], fail))
           ELSE /\ sessionObjs' = Append(sessionObjs, session)
                /\ SetBus(BroadcastToClients(Bus0,
                      [type |-> "comparisonPending", sessionId |-> sessionId,
                       before |-> ~DataAvailable(beforeSnapshotId),
                       after |-> ~DataAvailable(afterSnapshotId)], fail))
        /\ last' = [op |-> "comparison-ready", conn |-> c, key |-> k]
        /\ nframes' = nframes + 1
  /\ UNCHANGED <<conn, services, svcOrder, metrics, alerts, alertCounter, snapshots,
                 files, now, lastSweep, arrivals, completions, ingested, holders, scratch, httpVars>>

\* The session after the analysis resolved with `analysis':
\* session.status = 'completed'; session.result = analysis
Complete(session, analysis) ==
  [SetStatus(session, "completed") EXCEPT !.hasResult = TRUE, !.result = analysis]

\* The catch block: session.status = 'failed'
Fail(session) == SetStatus(session, "failed")

\* The scratch files of a session's analysis: before_<id>.heapsnapshot and
\* after_<id>.heapsnapshot in os.tmpdir().
BeforePath(session) == <<"before", session.beforeSnapshotId>>
AfterPath(session) == <<"after", session.afterSnapshotId>>

\* fs.unlinkSync(beforePath); fs.unlinkSync(afterPath): the first unlink
\* of a missing file raises and the statements after it do not run.
UnlinkBoth(files0, session) ==
  IF BeforePath(session) \notin files0 THEN [ok |-> FALSE, files |-> files0]
  ELSE IF AfterPath(session) \notin files0
  THEN [ok |-> FALSE, files |-> files0 \ {BeforePath(session)}]
  ELSE [ok |-> TRUE, files |-> files0 \ {BeforePath(session), AfterPath(session)}]

\* handleComparisonReady resumed with performSnapshotAnalysis rejected
\* with `error': the catch block.
Rejected(k, session, error, fail) ==
  /\ sessionObjs' = [sessionObjs EXCEPT ![k] = Fail(session)]
  /\ SetBus(BroadcastToClients(Bus0,
        [type |-> "comparisonFailed", sessionId |-> session.id,
         error |-> error], fail))
  /\ UNCHANGED <<alerts, alertCounter>>

\* What happens between the `await import' of the primary analyzer and the
\* start of its run: all goes well, the module fails to load, or a
\* writeFileSync raises, leaving no file (the open failed) or a partial
\* one (the write failed).
IoOutcomes ==
  {"ok", "import-fails", "write1-fails", "write1-partial", "write2-fails",
   "write2-partial"}

\* The scratch files that exist after the two writeFileSync calls.
Written(session, io) ==
  IF io \in {"import-fails", "write1-fails"} THEN {}
  ELSE IF io \in {"write1-partial", "write2-fails"} THEN {BeforePath(session)}
  ELSE {BeforePath(session), AfterPath(session)}

\* performSnapshotAnalysis resumed after its `await import': the blobs of
\* the two snapshots are written to the scratch files and the primary
\* analyzer is started.  A failing import or write is outside the try
\* block: performSnapshotAnalysis rejects with it and handleComparisonReady
\* lands in its catch block.
AnalysisStarts(k, io, fail) ==
  /\ k \in DOMAIN sessionObjs
  /\ sessionObjs[k].stage = "importing"
  /\ scratch' = scratch \cup Written(sessionObjs[k], io)
  /\ IF io = "ok"
     THEN /\ sessionObjs' = [sessionObjs EXCEPT ![k].stage = "primary"]
          /\ out' = <<>>
          /\ NoSends
          /\ UNCHANGED <<alerts, alertCounter, dashboardClients, frames>>
     ELSE Rejected(k, [sessionObjs[k] EXCEPT !.stage = "done"],
                   IF io = "import-fails" THEN "importError" ELSE "writeError", fail)
  /\ Internal("analysis-started", k)
  /\ UNCHANGED <<conn, services, svcOrder, metrics, snapshots, comparisonSessions,
                 files, now, lastSweep, arrivals, completions, ingested, holders,
                 httpVars>>

\* handleComparisonReady resumed with the value of performSnapshotAnalysis,
\* `analysis' (kind "primary" or "fallback"), for `session'.  In the alert
\* literal `id: this.alertCounter++' is evaluated before `message', whose
\* totalGrowthMB.toFixed(2) raises a TypeError when the summary has no
\* totalGrowthMB; the raise lands in the catch block.
Resolved(k, session, analysis, fail1, fail2) ==
  LET sessionId == session.id
      done == Complete(session, analysis)
      bus1 == BroadcastToClients(Bus0,
                 [type |-> "comparisonCompleted", sessionId |-> sessionId,
                  analysis |-> analysis], fail1)
  IN IF ~analysis.summary.suspiciousGrowth
     THEN /\ sessionObjs' = [sessionObjs EXCEPT ![k] = done]
          /\ SetBus(bus1)
          /\ UNCHANGED <<alerts, alertCounter>>
     ELSE IF analysis.summary.hasTotalGrowthMB
     THEN /\ sessionObjs' = [sessionObjs EXCEPT ![k] = done]
          /\ SetBus(bus1)
          /\ alertCounter' = alertCounter + 1
          /\ alerts' = Append(alerts,
                [id |-> <<alertCounter, 0>>, service |-> session.serviceName,
                 type |-> "leak", timestamp |-> now,
                 severity |-> GrowthSeverity(analysis.summary.totalGrowthMB)])
     ELSE /\ sessionObjs' = [sessionObjs EXCEPT ![k] = Fail(done)]
          /\ SetBus(BroadcastToClients(bus1,
                [type |-> "comparisonFailed", sessionId |-> sessionId,
                 error |-> "TypeError"], fail2))
          /\ alertCounter' = alertCounter + 1
          /\ alerts' = alerts

\* performSnapshotAnalysis resumed with what the analyzer it awaits settled
\* with.  Awaiting the primary analyzer: `outcome' of kind "primary" is its
\* result, any other kind its rejection; a result is returned after the
\* scratch files are unlinked, and a rejection or a failing unlink starts
\* the fallback analyzer.  Awaiting the fallback analyzer: it reads the
\* scratch files, so it rejects when one is missing; `outcome' of kind
\* "fallback" is its result, kind "error" its rejection.
AnalysisSettles(k, outcome, fail1, fail2) ==
  /\ k \in DOMAIN sessionObjs
  /\ sessionObjs[k].status = "analyzing"
  /\ sessionObjs[k].stage \in {"primary", "fallback"}
  /\ LET session == sessionObjs[k]
         unlinked == UnlinkBoth(scratch, session)
     IN IF session.stage = "primary"
        THEN LET returned == outcome.kind = "primary"
                 tried1 == [session EXCEPT !.primary = IF returned THEN "returned" ELSE "threw"]
             IN IF returned /\ unlinked.ok
                THEN /\ scratch' = unlinked.files
                     /\ Resolved(k, [tried1 EXCEPT !.stage = "done"], outcome, fail1, fail2)
                ELSE /\ scratch' = IF returned THEN unlinked.files ELSE scratch
                     /\ sessionObjs' = [sessionObjs EXCEPT ![k] =
                           [tried1 EXCEPT !.stage = "fallback", !.fallbacks = @ + 1]]
                     /\ out' = <<>>
                     /\ NoSends
                     /\ UNCHANGED <<alerts, alertCounter, dashboardClients, frames>>
        ELSE /\ outcome.kind \in {"fallback", "error"}
             /\ scratch' = unlinked.files
             /\ IF outcome.kind = "fallback" /\ unlinked.ok
                THEN Resolved(k, [session EXCEPT !.stage = "done"], outcome, fail1, fail2)
                ELSE Rejected(k, [session EXCEPT !.stage = "done"], "fallbackError", fail1)
  /\ Internal("analysis-settled", k)
  /\ UNCHANGED <<conn, services, svcOrder, metrics, snapshots, comparisonSessions,
                 files, now, lastSweep, arrivals, completions, ingested, holders, httpVars>>


(***************************************************************************)
(* Session store: services, metric rings, the alert ring.                  *)
(***************************************************************************)

\* this.services.set(name, {...}): a new key goes to the end of the Map's
\* iteration order, an existing key keeps its place.
OrderSet(order, name) ==
  IF \E i \in 1 .. Len(order) : order[i] = name THEN order ELSE Append(order, name)

\* The record a registration stores.
NewService(name, ws, timestamp) ==
  [name |-> name, status |-> "connected", connection |-> ws,
   registeredAt |-> timestamp, lastSeen |-> timestamp, totalAlerts |-> 0]

\* Mutant: serviceMetrics.unshift(message), the newest sample first.
PushMetricFront(serviceMetrics, message) ==
  LET pushed == <<message>> \o serviceMetrics
  IN IF Len(pushed) > MetricCap THEN SubSeq(pushed, 1, MetricCap) ELSE pushed

\* Mutant: the eviction removes the newest stored sample, not the oldest.
PushMetricEvictNewest(serviceMetrics, message) ==
  IF Len(serviceMetrics) >= MetricCap
  THEN Append(SubSeq(serviceMetrics, 1, Len(serviceMetrics) - 1), message)
  ELSE Append(serviceMetrics, message)

\* serviceMetrics.push(message); if (length > 1000) serviceMetrics.shift()
PushMetric(serviceMetrics, message) ==
  LET pushed == Append(serviceMetrics, message)
  IN IF Len(pushed) > MetricCap THEN Tail(pushed) ELSE pushed

\* trimAlerts, applied to the alert array
TrimAlerts(a) == IF Len(a) > AlertCap THEN SliceLast(a, AlertCap) ELSE a

\* Mutant: the alert is pushed twice.
PushAlertTwice(a, alert) == TrimAlerts(Append(Append(a, alert), alert))

\* this.alerts.push(alert); this.trimAlerts()
PushAlert(a, alert) == TrimAlerts(Append(a, alert))

\* getLastMetrics
GetLastMetrics(serviceName) ==
  LET serviceMetrics == MapGetOr(metrics, serviceName, <<>>)
  IN IF Len(serviceMetrics) > 0
     THEN [present |-> TRUE, sample |-> serviceMetrics[Len(serviceMetrics)]]
     ELSE [present |-> FALSE, sample |-> [service |-> serviceName, timestamp |-> 0,
                                          leakDetected |-> FALSE, heapUsedMB |-> 0]]

\* getServicesData: the connected services, in the Map's iteration order
RECURSIVE ServicesData(_)
ServicesData(order) ==
  IF order = <<>> THEN <<>>
  ELSE LET service == services[Head(order)]
       IN (IF service.status = "connected"
           THEN <<[name |-> service.name, status |-> service.status,
                   registeredAt |-> service.registeredAt, lastSeen |-> service.lastSeen,
                   totalAlerts |-> service.totalAlerts,
                   lastMetrics |-> GetLastMetrics(service.name)]>>
           ELSE <<>>) \o ServicesData(Tail(order))

GetServicesData == ServicesData(svcOrder)

\* Mutant: the slice without the reverse(), the oldest of the window first.
GetRecentAlertsOldestFirst == SliceLast(alerts, RecentAlertLimit)

\* getRecentAlerts(limit = 10)
GetRecentAlerts == Reverse(SliceLast(alerts, RecentAlertLimit))

\* Date.now() at the time the process started (`now' counts from it), in
\* milliseconds: far above every value this.alertCounter takes.
StartedAtMs == 1000

\* Date.now() + Math.random(): the instant and the random fraction, in
\* tenths
RandomFracs == {0, 5}
TimeId(rnd) == <<StartedAtMs + now, rnd>>

\* handleServiceRegistration
HandleServiceRegistration(c, service, timestamp, fail) ==
  /\ conn[c] = "open"
  /\ services' = MapSet(services, service, NewService(service, c, timestamp))
  /\ svcOrder' = OrderSet(svcOrder, service)
  /\ metrics' = IF service \in DOMAIN metrics THEN metrics ELSE MapSet(metrics, service, <<>>)
  /\ SetBus(BroadcastToClients(Bus0,
        [type |-> "serviceRegistered", service |-> service, timestamp |-> timestamp], fail))
  /\ holders' = [holders EXCEPT ![service] = Append(@, c)]
  /\ Handled("registration", c, service)
  /\ UNCHANGED <<conn, alerts, alertCounter, snapshots, comparisonSessions, sessionObjs,
                 files, now, lastSweep, arrivals, completions, ingested, scratch, httpVars>>

\* handleCaptureAgentRegistration
HandleCaptureAgentRegistration(c, serviceName, timestamp, fail) ==
  /\ conn[c] = "open"
  /\ services' = MapSet(services, CaptureName(serviceName),
                        NewService(CaptureName(serviceName), c, timestamp))
  /\ svcOrder' = OrderSet(svcOrder, CaptureName(serviceName))
  /\ SetBus(BroadcastToClients(Bus0,
        [type |-> "captureAgentRegistered", serviceName |-> serviceName,
         timestamp |-> timestamp], fail))
  /\ holders' = [holders EXCEPT ![CaptureName(serviceName)] = Append(@, c)]
  /\ Handled("capture-agent-registration", c, CaptureName(serviceName))
  /\ UNCHANGED <<conn, metrics, alerts, alertCounter, snapshots, comparisonSessions,
                 sessionObjs, files, now, lastSweep, arrivals, completions, ingested, scratch, httpVars>>

\* handleMetrics with handleLeakAlert.  The sample keeps service, timestamp,
\* leakDetected and heapUsedMB of the message; the other gauges are copied
\* through unread and are left out.
HandleMetrics(c, service, timestamp, leakDetected, heapUsedMB, rnd, fail1, fail2) ==
  /\ conn[c] = "open"
  /\ LET message == [service |-> service, timestamp |-> timestamp,
                     leakDetected |-> leakDetected, heapUsedMB |-> heapUsedMB]
         seen == IF service \in DOMAIN services
                 THEN [services EXCEPT ![service].lastSeen = timestamp,
                                       ![service].status = "connected"]
                 ELSE services
         alert == [id |-> TimeId(rnd), service |-> service, type |-> "leak",
                   timestamp |-> timestamp, severity |-> "critical"]
         bus1 == IF leakDetected
                 THEN BroadcastToClients(Bus0, [type |-> "leakAlert", alert |-> alert], fail1)
                 ELSE Bus0
     IN /\ metrics' = MapSet(metrics, service,
                             PushMetric(MapGetOr(metrics, service, <<>>), message))
        /\ ingested' = [ingested EXCEPT ![service] = Append(@, message)]
        /\ services' = IF leakDetected /\ service \in DOMAIN services
                       THEN [seen EXCEPT ![service].totalAlerts = @ + 1]
                       ELSE seen
        /\ alerts' = IF leakDetected THEN PushAlert(alerts, alert) ELSE alerts
        /\ SetBus(BroadcastToClients(bus1,
              [type |-> "metricsUpdate", sample |-> message], fail2))
  /\ Handled("metrics", c, service)
  /\ UNCHANGED <<conn, svcOrder, alertCounter, snapshots, comparisonSessions,
                 sessionObjs, files, now, lastSweep, arrivals, completions, holders, scratch, httpVars>>

\* handleSnapshot: the legacy notification
HandleSnapshot(c, service, timestamp, rnd, fail) ==
  /\ conn[c] = "open"
  /\ LET alert == [id |-> TimeId(rnd), service |-> service, type |-> "snapshot",
                   timestamp |-> timestamp, severity |-> "info"]
     IN /\ alerts' = PushAlert(alerts, alert)
        /\ SetBus(BroadcastToClients(Bus0, [type |-> "snapshotAlert", alert |-> alert], fail))
  /\ Handled("snapshot", c, service)
  /\ UNCHANGED <<conn, services, svcOrder, metrics, alertCounter, snapshots,
                 comparisonSessions, sessionObjs, files, now, lastSweep, arrivals,
                 completions, ingested, holders, scratch, httpVars>>


(***************************************************************************)
(* Connections: accept, close, undecodable and unknown frames.             *)
(***************************************************************************)

\* The 'connection' callback.  dashboard: req.url includes "dashboard".
\* initialOk: the send of the initial frame delivers it.  Connections are
\* numbered in the order they are accepted.
Connect(c, dashboard, initialOk) ==
  /\ conn[c] = "new"
  /\ \A d \in Conns : d < c => conn[d] # "new"
  /\ \E state \in (IF dashboard /\ ~initialOk THEN {"open", "closing"} ELSE {"open"}) :
        conn' = [conn EXCEPT ![c] = state]
  /\ dashboardClients' = IF dashboard THEN dashboardClients \cup {c} ELSE dashboardClients
  /\ frames' = IF dashboard /\ initialOk
               THEN [frames EXCEPT ![c] = Append(@,
                       [type |-> "initial", services |-> GetServicesData,
                        alerts |-> GetRecentAlerts])]
               ELSE frames
  /\ out' = <<>>
  /\ NoSends
  /\ Handled("connection", c, IF dashboard THEN "dashboard" ELSE "agent")
  /\ UNCHANGED <<services, svcOrder, metrics, alerts, alertCounter, snapshots,
                 comparisonSessions, sessionObjs, files, now, lastSweep, arrivals,
                 completions, ingested, holders, scratch, httpVars>>

\* The socket leaves the OPEN state; its 'close' event has not run yet.
SocketCloses(c) ==
  /\ conn[c] = "open"
  /\ conn' = [conn EXCEPT ![c] = "closing"]
  /\ out' = <<>>
  /\ NoSends
  /\ Handled("socket-closes", c, "")
  /\ UNCHANGED <<services, svcOrder, metrics, alerts, alertCounter, dashboardClients,
                 snapshots, comparisonSessions, sessionObjs, files, frames, now,
                 lastSweep, arrivals, completions, ingested, holders, scratch, httpVars>>

\* Mutant: the scan takes the first service, whatever its connection.
FirstOwnedAny(order, ws) == IF order = <<>> THEN "" ELSE Head(order)

\* The first service, in iteration order, whose connection is ws; "" if none.
RECURSIVE FirstOwned(_, _)
FirstOwned(order, ws) ==
  IF order = <<>> THEN ""
  ELSE IF services[Head(order)].connection = ws THEN Head(order)
  ELSE FirstOwned(Tail(order), ws)

\* ws.on('close')
OnClose(c, fail) ==
  /\ conn[c] = "closing"
  /\ conn' = [conn EXCEPT ![c] = "closed"]
  /\ LET owned == FirstOwned(svcOrder, c)
         bus0 == [Bus0 EXCEPT !.clients = dashboardClients \ {c}]
     IN IF owned = ""
        THEN /\ services' = services
             /\ SetBus(bus0)
        ELSE /\ services' = [services EXCEPT ![owned].status = "disconnected",
                                             ![owned].lastSeen = now]
             /\ SetBus(BroadcastToClients(bus0,
                   [type |-> "serviceUpdate", service |-> owned,
                    status |-> "disconnected"], fail))
  /\ Handled("close", c, "")
  /\ UNCHANGED <<svcOrder, metrics, alerts, alertCounter, snapshots, comparisonSessions,
                 sessionObjs, files, now, lastSweep, arrivals, completions, ingested, holders, scratch, httpVars>>

\* Mutant: the catch block answers and terminates the connection.
InvalidFrameCloses(c) ==
  /\ conn[c] = "open"
  /\ conn' = [conn EXCEPT ![c] = "closing"]
  /\ frames' = [frames EXCEPT ![c] = Append(@, ErrorFrame)]
  /\ out' = <<>>
  /\ NoSends
  /\ Handled("invalid-json", c, "")
  /\ UNCHANGED <<services, svcOrder, metrics, alerts, alertCounter,
                 dashboardClients, snapshots, comparisonSessions, sessionObjs, files,
                 now, lastSweep, arrivals, completions, ingested, holders, scratch, httpVars>>

\* ws.on('message') with a frame JSON.parse rejects
InvalidFrame(c) ==
  /\ conn[c] = "open"
  /\ frames' = [frames EXCEPT ![c] = Append(@, ErrorFrame)]
  /\ out' = <<>>
  /\ NoSends
  /\ Handled("invalid-json", c, "")
  /\ UNCHANGED <<conn, services, svcOrder, metrics, alerts, alertCounter,
                 dashboardClients, snapshots, comparisonSessions, sessionObjs, files,
                 now, lastSweep, arrivals, completions, ingested, holders, scratch, httpVars>>

\* handleAgentMessage, default branch: an unknown type is logged
UnknownType(c) ==
  /\ conn[c] = "open"
  /\ out' = <<>>
  /\ NoSends
  /\ Handled("unknown-type", c, "")
  /\ UNCHANGED <<conn, services, svcOrder, metrics, alerts, alertCounter,
                 dashboardClients, snapshots, comparisonSessions, sessionObjs, files,
                 frames, now, lastSweep, arrivals, completions, ingested, holders, scratch, httpVars>>

(***************************************************************************)
(* Liveness monitor: the setInterval callback of start(), and the clock.   *)
(***************************************************************************)
TickMs == SweepPeriodMs

\* Mutant: the sweep tests the deadline only, not the status.
ExpiredWhateverStatus(service, t) == (t - service.lastSeen) > TimeoutMs

\* The condition of the sweep on one service.
Expired(service, t) ==
  service.status = "connected" /\ (t - service.lastSeen) > TimeoutMs

\* The loop of the callback over this.services.entries().  A client whose
\* send raises does so at the first event the sweep publishes.
RECURSIVE SweepFrom(_, _, _, _)
SweepFrom(order, svcs, bus, fail) ==
  IF order = <<>> THEN [services |-> svcs, bus |-> bus]
  ELSE LET name == Head(order)
       IN IF Expired(svcs[name], now)
          THEN SweepFrom(Tail(order),
                         [svcs EXCEPT ![name].status = "disconnected"],
                         BroadcastToClients(bus,
                            [type |-> "serviceUpdate", service |-> name,
                             status |-> "disconnected"], fail),
                         fail)
          ELSE SweepFrom(Tail(order), svcs, bus, fail)

Sweep(fail) ==
  /\ now - lastSweep >= SweepPeriodMs
  /\ lastSweep' = now
  /\ LET r == SweepFrom(svcOrder, services, Bus0, fail)
     IN /\ services' = r.services
        /\ SetBus(r.bus)
  /\ Internal("sweep", "")
  /\ UNCHANGED <<conn, svcOrder, metrics, alerts, alertCounter, snapshots,
                 comparisonSessions, sessionObjs, files, now, arrivals, completions,
                 ingested, holders, scratch, httpVars>>

\* Time passes; a due timer callback runs before more time passes.
Tick(ticks) ==
  /\ now - lastSweep < SweepPeriodMs
  /\ now < ticks * TickMs
  /\ now' = now + TickMs
  /\ out' = <<>>
  /\ NoSends
  /\ Internal("tick", "")
  /\ UNCHANGED <<conn, services, svcOrder, metrics, alerts, alertCounter,
                 dashboardClients, snapshots, comparisonSessions, sessionObjs, files,
                 frames, lastSweep, arrivals, completions, ingested, holders, scratch, httpVars>>


(***************************************************************************)
(* simple-http-server.js: the upload and the listing of snapshots.  A      *)
(* string made of parts joined by "_" is the sequence of its parts, so     *)
(* that a template gluing strings with "_" is a concatenation.             *)
(***************************************************************************)

\* The state of the dashboard process.
dashboardVars ==
  <<conn, services, svcOrder, metrics, alerts, alertCounter, dashboardClients,
    snapshots, comparisonSessions, sessionObjs, files, frames, out, lastSweep,
    arrivals, completions, ingested, holders, tried, raised, scratch>>

\* `${phase}_${serviceName}_${Date.now()}`
UploadId(phase, serviceName, t) == phase \o serviceName \o <<ToString(t)>>

\* The filename of a request body: a string (its stem and its extension),
\* a value that is not a string, or absent (isString, empty stem).
NoFilename == [isString |-> TRUE, stem |-> <<>>, ext |-> ""]

\* `${snapshotId}.heapsnapshot`
DefaultFilename(snapshotId) ==
  [isString |-> TRUE, stem |-> snapshotId, ext |-> ".heapsnapshot"]

\* filename || `${snapshotId}.heapsnapshot`
FilenameOr(filename, snapshotId) ==
  IF filename = NoFilename THEN DefaultFilename(snapshotId) ELSE filename

\* The record snapshots.set stores.
StoredRecord(snapshotId, serviceName, containerId, phase, snapshotData, filename) ==
  [id |-> snapshotId, serviceName |-> serviceName, containerId |-> containerId,
   phase |-> phase, timestamp |-> now, size |-> Len(snapshotData),
   filename |-> FilenameOr(filename, snapshotId), data |-> snapshotData]

\* A request was handled.
Requested(op, key) ==
  /\ last' = [op |-> op, conn |-> 0, key |-> key]
  /\ nframes' = nframes + 1

\* POST /api/snapshots/upload.  fsOk: mkdirSync and writeFileSync succeed.
\* A field that is missing or empty answers 400.  The record is stored
\* before the file is written; path.join raises on a filename that is not
\* a string, and that or a failing write answers 500.
Upload(serviceName, containerId, phase, snapshotData, filename, fsOk) ==
  /\ LET snapshotId == UploadId(phase, serviceName, now)
         record == StoredRecord(snapshotId, serviceName, containerId, phase,
                                snapshotData, filename)
     IN IF serviceName = <<>> \/ containerId = "" \/ phase = <<>> \/ snapshotData = ""
        THEN /\ response' = [status |-> 400]
             /\ UNCHANGED <<httpSnapshots, httpOrder, httpFiles, acked>>
        ELSE /\ httpSnapshots' = MapSet(httpSnapshots, snapshotId, record)
             /\ httpOrder' = OrderSet(httpOrder, snapshotId)
             /\ IF record.filename.isString /\ fsOk
                THEN /\ httpFiles' = MapSet(httpFiles, <<serviceName, record.filename>>,
                                            snapshotData)
                     /\ response' = [status |-> 200, snapshotId |-> snapshotId,
                                     size |-> Len(snapshotData)]
                     /\ acked' = Append(
                           [i \in DOMAIN acked |->
                              IF acked[i].snapshotId = snapshotId
                              THEN [acked[i] EXCEPT !.replaced = TRUE] ELSE acked[i]],
                           [snapshotId |-> snapshotId, phase |-> phase,
                            snapshotData |-> snapshotData, replaced |-> FALSE])
                ELSE /\ httpFiles' = httpFiles
                     /\ response' = [status |-> 500]
                     /\ acked' = [i \in DOMAIN acked |->
                                    IF acked[i].snapshotId = snapshotId
                                    THEN [acked[i] EXCEPT !.replaced = TRUE] ELSE acked[i]]
  /\ Requested("upload", "")
  /\ UNCHANGED <<dashboardVars, now>>

\* The projection of a stored record that the listing returns.
Listed(snapshot) ==
  [id |-> snapshot.id, serviceName |-> snapshot.serviceName,
   containerId |-> snapshot.containerId, phase |-> snapshot.phase,
   timestamp |-> snapshot.timestamp, size |-> snapshot.size,
   filename |-> snapshot.filename]

\* Array.from(snapshots.values()).map(...)
SnapshotList == [i \in DOMAIN httpOrder |-> Listed(httpSnapshots[httpOrder[i]])]

\* The parts that are a run of digits: the ones Date.now() prints.
IsDigits(part) == part \in {ToString(t) : t \in 0 .. MaxClock}

\* filename.match(/^([^_]+_[^_]+_\d+)/): the first two parts and the
\* digits that start the third; 'unknown' without a match.
SessionOf(filename) ==
  IF Len(filename.stem) >= 3 /\ IsDigits(filename.stem[3])
  THEN SubSeq(filename.stem, 1, 3) ELSE <<"unknown">>

\* The forEach that groups the listed snapshots by session id.
RECURSIVE GroupSessions(_, _)
GroupSessions(list, sessions) ==
  IF list = <<>> THEN sessions
  ELSE LET snapshot == Head(list)
           sessionId == SessionOf(snapshot.filename)
           at == {i \in DOMAIN sessions : sessions[i].sessionId = sessionId}
       IN IF at = {}
          THEN GroupSessions(Tail(list),
                 Append(sessions,
                   [sessionId |-> sessionId, serviceName |-> snapshot.serviceName,
                    containerId |-> snapshot.containerId, snapshots |-> <<snapshot>>,
                    createdAt |-> snapshot.timestamp, status |-> "incomplete"]))
          ELSE LET i == CHOOSE i \in at : TRUE
               IN GroupSessions(Tail(list),
                    [sessions EXCEPT
                       ![i].snapshots = Append(@, snapshot),
                       ![i].createdAt = IF snapshot.timestamp < @
                                        THEN snapshot.timestamp ELSE @])

\* The status of a session: complete, partial or empty.
SessionStatus(session) ==
  LET hasBefore == \E i \in DOMAIN session.snapshots :
                      session.snapshots[i].phase = <<"before">>
      hasAfter == \E i \in DOMAIN session.snapshots :
                     session.snapshots[i].phase = <<"after">>
  IN IF hasBefore /\ hasAfter THEN "complete"
     ELSE IF hasBefore \/ hasAfter THEN "partial" ELSE "empty"

\* sort((a, b) => new Date(b.createdAt) - new Date(a.createdAt)): a stable
\* sort, the newest session first.
RECURSIVE InsertSession(_, _)
InsertSession(sorted, session) ==
  IF sorted = <<>> THEN <<session>>
  ELSE IF Head(sorted).createdAt < session.createdAt THEN <<session>> \o sorted
  ELSE <<Head(sorted)>> \o InsertSession(Tail(sorted), session)

RECURSIVE SortSessions(_, _)
SortSessions(sessions, sorted) ==
  IF sessions = <<>> THEN sorted
  ELSE SortSessions(Tail(sessions), InsertSession(sorted, Head(sessions)))

\* GET /api/snapshots.  snapshot.filename.match raises on a filename that
\* is not a string: the request is answered 500 by the framework.
ListSnapshots ==
  /\ response' =
        IF \E id \in DOMAIN httpSnapshots : ~httpSnapshots[id].filename.isString
        THEN [status |-> 500]
        ELSE LET grouped == GroupSessions(SnapshotList, <<>>)
                 classified == [i \in DOMAIN grouped |->
                                  [grouped[i] EXCEPT !.status = SessionStatus(grouped[i])]]
             IN [status |-> 200, snapshots |-> SnapshotList,
                 sessions |-> SortSessions(classified, <<>>)]
  /\ Requested("list", "")
  /\ UNCHANGED <<dashboardVars, now, httpSnapshots, httpOrder, httpFiles, acked>>

\* A millisecond passes.
ClockAdvances ==
  /\ now < MaxClock
  /\ now' = now + 1
  /\ UNCHANGED <<dashboardVars, httpVars, last, nframes>>

(***************************************************************************)
(* The REST routes of the dashboard.  A query parameter is absent (or the  *)
(* empty string, which is falsy too), or a string of digits, given here by *)
(* the integer parseInt makes of it.                                       *)
(***************************************************************************)
NoParam == [given |-> FALSE, value |-> 0]
Param(v) == [given |-> TRUE, value |-> v]

\* Array.prototype.slice(start): a negative start counts from the end, and
\* -0 is 0, the start of the array.
Slice(s, start) ==
  LET k == IF start < 0
           THEN (IF Len(s) + start < 0 THEN 0 ELSE Len(s) + start)
           ELSE (IF start > Len(s) THEN Len(s) ELSE start)
  IN SubSeq(s, k + 1, Len(s))

\* GET /api/services/:serviceName/metrics
GetServiceMetrics(serviceName, limit, from, to) ==
  /\ LET serviceMetrics == MapGetOr(metrics, serviceName, <<>>)
         fromTime == IF from.given THEN from.value ELSE 0
         toTime == IF to.given THEN to.value ELSE now
         filteredMetrics ==
           IF from.given \/ to.given
           THEN SelectSeq(serviceMetrics,
                          LAMBDA m : m.timestamp >= fromTime /\ m.timestamp <= toTime)
           ELSE serviceMetrics
         parsed == IF limit.given THEN limit.value ELSE DefaultLimit
         limitedMetrics == Slice(filteredMetrics, -parsed)
     IN response' = [status |-> 200, service |-> serviceName,
                     metrics |-> limitedMetrics, total |-> Len(filteredMetrics)]
  /\ Requested("get-metrics", [serviceName |-> serviceName, limit |-> limit,
                                from |-> from, to |-> to])
  /\ UNCHANGED <<dashboardVars, now, httpSnapshots, httpOrder, httpFiles, acked>>

(***************************************************************************)
(* Initial states.                                                         *)
(***************************************************************************)
EmptyMap == <<>>

\* The state after construction and start(), with the first `open'
\* connections already accepted as agents.
Started(open) ==
  /\ conn = [c \in Conns |-> IF c <= open THEN "open" ELSE "new"]
  /\ services = EmptyMap
  /\ svcOrder = <<>>
  /\ metrics = EmptyMap
  /\ alerts = <<>>
  /\ alertCounter = 1
  /\ dashboardClients = {}
  /\ snapshots = EmptyMap
  /\ comparisonSessions = EmptyMap
  /\ sessionObjs = <<>>
  /\ files = EmptyMap
  /\ frames = [c \in Conns |-> <<>>]
  /\ out = <<>>
  /\ now = 0
  /\ lastSweep = 0
  /\ last = [op |-> "start", conn |-> 0, key |-> ""]
  /\ arrivals = [id \in SnapshotIds |-> <<>>]
  /\ completions = [id \in SnapshotIds |-> 0]
  /\ ingested = [n \in Names |-> <<>>]
  /\ holders = [n \in Names |-> <<>>]
  /\ nframes = 0
  /\ tried = <<>>
  /\ raised = {}
  /\ scratch = {}
  /\ httpSnapshots = <<>>
  /\ httpOrder = <<>>
  /\ httpFiles = <<>>
  /\ response = [status |-> 0]
  /\ acked = <<>>

\* The complete server starts with its first agent connection accepted.
Init == Started(1)

(***************************************************************************)
(* The complete server.                                                    *)
(***************************************************************************)
Next ==
  \/ \E c \in Conns, dashboard \in BOOLEAN, initialOk \in BOOLEAN :
       nframes < MaxFrames /\ Connect(c, dashboard, initialOk)
  \/ \E c \in Conns : nframes < MaxFrames /\ SocketCloses(c)
  \/ \E c \in Conns : nframes < MaxFrames /\ InvalidFrame(c)
  \/ \E c \in Conns : nframes < MaxFrames /\ UnknownType(c)
  \/ \E c \in Conns, fail \in SUBSET OpenClients :
       nframes < MaxFrames /\ HandleServiceRegistration(c, "svc-a", now, fail)
  \/ \E c \in Conns, fail \in SUBSET OpenClients :
       nframes < MaxFrames /\ HandleCaptureAgentRegistration(c, "svc-a", now, fail)
  \/ \E c \in Conns, leak \in BOOLEAN, fail \in SUBSET OpenClients :
       nframes < MaxFrames /\ HandleMetrics(c, "svc-a", now, leak, 1, 0, fail, {})
  \/ \E c \in Conns, fail \in SUBSET OpenClients :
       nframes < MaxFrames /\ HandleSnapshot(c, "svc-a", now, 0, fail)
  \/ \E c \in Conns, fail \in SUBSET OpenClients :
       nframes < MaxFrames /\ HandleSnapshotMetadata(c, "before_1", "b.heapsnapshot", 1, fail)
  \/ \E c \in Conns, fail \in SUBSET OpenClients :
       nframes < MaxFrames /\ HandleSnapshotChunk(c, "before_1", 0, 1, "x", fail)
  \/ \E c \in Conns, fsOk \in BOOLEAN, fail \in SUBSET OpenClients :
       nframes < MaxFrames /\ HandleSnapshotComplete(c, "before_1", fsOk, fail)
  \/ \E c \in Conns, fail \in SUBSET OpenClients :
       nframes < MaxFrames /\ HandleComparisonReady(c, "svc-a", "before_1", "before_1", fail)
  \/ \E c \in Conns, fail \in SUBSET OpenClients : OnClose(c, fail)
  \/ \E k \in DOMAIN sessionObjs, io \in IoOutcomes, fail \in SUBSET OpenClients :
       AnalysisStarts(k, io, fail)
  \/ \E k \in DOMAIN sessionObjs, outcome \in Outcomes, fail \in SUBSET OpenClients :
       AnalysisSettles(k, outcome, fail, {})
  \/ \E fail \in SUBSET OpenClients : Sweep(fail)
  \/ Tick(MaxTicksAll)

Spec == Init /\ [][Next]_vars

(***************************************************************************)
(* The snapshot pipeline alone: one agent connection that announces,       *)
(* sends chunks, completes and asks for comparisons.                       *)
(***************************************************************************)
InitSnap == Started(1)

FilenameOf(id) == IF id = "before_1" THEN "b.heapsnapshot" ELSE "a.heapsnapshot"

\* The totalChunks a producer states in a chunk: the announced one.  The
\* producer keeps its chunk indexes below it.
DeclaredTotal(id) == IF id \in DOMAIN snapshots THEN snapshots[id].totalChunks ELSE MaxChunks

NextSnap ==
  \/ \E c \in Conns, id \in SnapshotIds, total \in 1 .. MaxChunks :
       nframes < MaxFramesSnap /\ HandleSnapshotMetadata(c, id, FilenameOf(id), total, {})
  \/ \E c \in Conns, id \in SnapshotIds, chunkIndex \in 0 .. MaxChunks - 1, data \in ChunkData :
       nframes < MaxFramesSnap
       /\ chunkIndex < DeclaredTotal(id)
       /\ HandleSnapshotChunk(c, id, chunkIndex, DeclaredTotal(id), data, {})
  \/ \E c \in Conns, id \in SnapshotIds :
       nframes < MaxFramesSnap /\ HandleSnapshotComplete(c, id, TRUE, {})
  \/ \E c \in Conns, b \in SnapshotIds, a \in SnapshotIds :
       nframes < MaxFramesSnap /\ HandleComparisonReady(c, "svc-a", b, a, {})
  \/ \E k \in DOMAIN sessionObjs : AnalysisStarts(k, "ok", {})
  \/ \E k \in DOMAIN sessionObjs, outcome \in Outcomes : AnalysisSettles(k, outcome, {}, {})

SpecSnap == InitSnap /\ [][NextSnap]_vars

\* The snapshot pipeline with the event loop's guarantee: a handler that was
\* suspended at an await is resumed once what it awaits has settled.
SpecSnapFair ==
  /\ SpecSnap
  /\ WF_vars(\E k \in DOMAIN sessionObjs : AnalysisStarts(k, "ok", {}))
  /\ WF_vars(\E k \in DOMAIN sessionObjs, outcome \in Outcomes :
                AnalysisSettles(k, outcome, {}, {}))


(***************************************************************************)
(* The metric rings: the server after `n' metrics messages for "svc-a"     *)
(* (not registered), the i-th carrying heapUsedMB = i and timestamp 0.     *)
(***************************************************************************)
PriorSample(i) ==
  [service |-> "svc-a", timestamp |-> 0, leakDetected |-> FALSE, heapUsedMB |-> i]

AfterMetrics(n) ==
  /\ conn = [c \in Conns |-> IF c = 1 THEN "open" ELSE "new"]
  /\ services = EmptyMap
  /\ svcOrder = <<>>
  /\ metrics = IF n = 0 THEN EmptyMap ELSE ("svc-a" :> [i \in 1 .. n |-> PriorSample(i)])
  /\ alerts = <<>>
  /\ alertCounter = 1
  /\ dashboardClients = {}
  /\ snapshots = EmptyMap
  /\ comparisonSessions = EmptyMap
  /\ sessionObjs = <<>>
  /\ files = EmptyMap
  /\ frames = [c \in Conns |-> <<>>]
  /\ out = <<>>
  /\ now = 0
  /\ lastSweep = 0
  /\ last = [op |-> "start", conn |-> 0, key |-> ""]
  /\ arrivals = [id \in SnapshotIds |-> <<>>]
  /\ completions = [id \in SnapshotIds |-> 0]
  /\ ingested = [name \in Names |-> IF name = "svc-a"
                                     THEN [i \in 1 .. n |-> PriorSample(i)] ELSE <<>>]
  /\ holders = [name \in Names |-> <<>>]
  /\ nframes = 0
  /\ tried = <<>>
  /\ raised = {}
  /\ scratch = {}
  /\ httpSnapshots = <<>>
  /\ httpOrder = <<>>
  /\ httpFiles = <<>>
  /\ response = [status |-> 0]
  /\ acked = <<>>

InitMetrics == \E n \in {0, MetricCap - 1} : AfterMetrics(n)

\* Timestamps a producer puts in its messages: its own clock, not the server's.
ProducerStamps == {0, TimeoutMs}

NextMetrics ==
  \/ \E c \in Conns, service \in BaseNames :
       nframes < MaxFramesRing /\ HandleServiceRegistration(c, service, now, {})
  \/ \E c \in Conns, service \in BaseNames, timestamp \in ProducerStamps, leak \in BOOLEAN :
       nframes < MaxFramesRing
       /\ HandleMetrics(c, service, timestamp, leak, 0, 0, {}, {})

SpecMetrics == InitMetrics /\ [][NextMetrics]_vars

(***************************************************************************)
(* The alert ring: the server after two one-chunk snapshots were           *)
(* completed and `n' legacy snapshot notifications for "svc-a" arrived.    *)
(***************************************************************************)
PriorAlert ==
  [id |-> <<StartedAtMs, 0>>, service |-> "svc-a", type |-> "snapshot", timestamp |-> 0,
   severity |-> "info"]

PriorSnapshot(id, payload) ==
  [id |-> id, filename |-> FilenameOf(id), totalChunks |-> 1, hasChunks |-> TRUE,
   chunks |-> <<[has |-> TRUE, val |-> payload]>>, receivedChunks |-> 1,
   hasData |-> TRUE, data |-> payload]

AfterAlerts(n) ==
  /\ conn = [c \in Conns |-> IF c = 1 THEN "open" ELSE "new"]
  /\ services = EmptyMap
  /\ svcOrder = <<>>
  /\ metrics = EmptyMap
  /\ alerts = [i \in 1 .. n |-> PriorAlert]
  /\ alertCounter = 1
  /\ dashboardClients = {}
  /\ snapshots = [id \in SnapshotIds |-> PriorSnapshot(id, "x")]
  /\ comparisonSessions = EmptyMap
  /\ sessionObjs = <<>>
  /\ files = [f \in {FilenameOf(id) : id \in SnapshotIds} |-> "x"]
  /\ frames = [c \in Conns |-> <<>>]
  /\ out = <<>>
  /\ now = 0
  /\ lastSweep = 0
  /\ last = [op |-> "start", conn |-> 0, key |-> ""]
  /\ arrivals = [id \in SnapshotIds |-> <<<<0, "x">>>>]
  /\ completions = [id \in SnapshotIds |-> 1]
  /\ ingested = [name \in Names |-> <<>>]
  /\ holders = [name \in Names |-> <<>>]
  /\ nframes = 0
  /\ tried = <<>>
  /\ raised = {}
  /\ scratch = {}
  /\ httpSnapshots = <<>>
  /\ httpOrder = <<>>
  /\ httpFiles = <<>>
  /\ response = [status |-> 0]
  /\ acked = <<>>

InitAlerts == \E n \in {0, AlertCap - 1} : AfterAlerts(n)

NextAlerts ==
  \/ \E c \in Conns, leak \in BOOLEAN :
       nframes < MaxFramesRing /\ HandleMetrics(c, "svc-a", now, leak, 0, 0, {}, {})
  \/ \E c \in Conns, rnd \in RandomFracs :
       nframes < MaxFramesRing /\ HandleSnapshot(c, "svc-a", now, rnd, {})
  \/ \E c \in Conns :
       nframes < MaxFramesRing /\ HandleComparisonReady(c, "svc-a", "before_1", "after_2", {})
  \/ \E k \in DOMAIN sessionObjs, io \in IoOutcomes : AnalysisStarts(k, io, {})
  \/ \E k \in DOMAIN sessionObjs, outcome \in Outcomes : AnalysisSettles(k, outcome, {}, {})

SpecAlerts == InitAlerts /\ [][NextAlerts]_vars

(***************************************************************************)
(* Service registration and liveness: two agent connections that           *)
(* register, send metrics and close, with the clock and the sweep.         *)
(***************************************************************************)
InitLive == Started(2)

NextLive ==
  \/ \E c \in Conns :
       nframes < MaxFramesLive /\ HandleServiceRegistration(c, "svc-a", now, {})
  \/ \E c \in Conns :
       nframes < MaxFramesLive /\ HandleCaptureAgentRegistration(c, "svc-a", now, {})
  \/ \E c \in Conns, timestamp \in {0, now} :
       nframes < MaxFramesLive /\ HandleMetrics(c, "svc-a", timestamp, FALSE, 0, 0, {}, {})
  \/ \E c \in Conns : nframes < MaxFramesLive /\ SocketCloses(c)
  \/ \E c \in Conns : OnClose(c, {})
  \/ Sweep({})
  \/ Tick(MaxTicks)

SpecLive == InitLive /\ [][NextLive]_vars

(***************************************************************************)
(* Stray snapshot messages: a producer that announces before_1 only and    *)
(* sends chunks and completions for before_1 and for after_2.              *)
(***************************************************************************)
InitStray == Started(1)

NextStray ==
  \/ \E c \in Conns, total \in 1 .. MaxChunks :
       nframes < MaxFramesStray
       /\ HandleSnapshotMetadata(c, "before_1", FilenameOf("before_1"), total, {})
  \/ \E c \in Conns, id \in SnapshotIds, chunkIndex \in 0 .. MaxChunks - 1, data \in ChunkData :
       nframes < MaxFramesStray
       /\ chunkIndex < DeclaredTotal(id)
       /\ HandleSnapshotChunk(c, id, chunkIndex, DeclaredTotal(id), data, {})
  \/ \E c \in Conns, id \in SnapshotIds :
       nframes < MaxFramesStray /\ HandleSnapshotComplete(c, id, TRUE, {})

SpecStray == InitStray /\ [][NextStray]_vars

(***************************************************************************)
(* Re-announcement: the server after before_1 and after_2 were completed   *)
(* from one chunk "x" each; before_1 is then announced again, under either *)
(* filename, and its chunks and completion follow.                         *)
(***************************************************************************)
InitAgain == AfterAlerts(0)

NextAgain ==
  \/ \E c \in Conns, filename \in Filenames, total \in 1 .. MaxChunks :
       nframes < MaxFramesAgain /\ HandleSnapshotMetadata(c, "before_1", filename, total, {})
  \/ \E c \in Conns, chunkIndex \in 0 .. MaxChunks - 1, data \in ChunkData :
       nframes < MaxFramesAgain
       /\ chunkIndex < DeclaredTotal("before_1")
       /\ HandleSnapshotChunk(c, "before_1", chunkIndex, DeclaredTotal("before_1"), data, {})
  \/ \E c \in Conns :
       nframes < MaxFramesAgain /\ HandleSnapshotComplete(c, "before_1", TRUE, {})

SpecAgain == InitAgain /\ [][NextAgain]_vars

(***************************************************************************)
(* The initial frame: one agent connection that registers two services,    *)
(* sends metrics of svc-b, some flagged as leaks, and closes, and          *)
(* dashboards that subscribe; the alert sequence starts empty or one short *)
(* of its cap.                                                             *)
(***************************************************************************)
InitInitial == \E n \in {0, AlertCap - 1} : AfterAlerts(n)

NextInitial ==
  \/ \E c \in Conns, service \in BaseNames :
       nframes < MaxFramesInitial /\ HandleServiceRegistration(c, service, now, {})
  \/ \E c \in Conns, leak \in BOOLEAN :
       nframes < MaxFramesInitial /\ HandleMetrics(c, "svc-b", now, leak, 0, 0, {}, {})
  \/ nframes < MaxFramesInitial /\ SocketCloses(1)
  \/ \E c \in Conns : OnClose(c, {})
  \/ \E c \in Conns : nframes < MaxFramesInitial /\ Connect(c, TRUE, TRUE)

SpecInitial == InitInitial /\ [][NextInitial]_vars

(***************************************************************************)
(* A producer that is heard in every sweep period: one agent connection    *)
(* that registers "svc-a" and sends metrics stamped by its own clock, with *)
(* the server's clock advancing only right after a metrics message was     *)
(* handled, so that two consecutive metrics messages are never more than   *)
(* one sweep period (30 s) of server time apart.                           *)
(***************************************************************************)
InitBeat == Started(1)

\* Time passes right after a metrics message was handled.
TickHeard(ticks) == last.op = "metrics" /\ Tick(ticks)

NextBeat ==
  \/ \E c \in Conns :
       nframes < MaxFramesBeat /\ HandleServiceRegistration(c, "svc-a", now, {})
  \/ \E c \in Conns, timestamp \in {0, now} :
       nframes < MaxFramesBeat /\ HandleMetrics(c, "svc-a", timestamp, FALSE, 0, 0, {}, {})
  \/ Sweep({})
  \/ TickHeard(MaxTicks)

SpecBeat == InitBeat /\ [][NextBeat]_vars

(***************************************************************************)
(* The publisher: one agent connection and dashboard connections whose     *)
(* sends may fail.                                                         *)
(***************************************************************************)
InitSubs == Started(1)

NextSubs ==
  \/ \E c \in Conns, initialOk \in BOOLEAN :
       nframes < MaxFramesSubs /\ Connect(c, TRUE, initialOk)
  \/ \E c \in Conns, fail \in SUBSET OpenClients :
       nframes < MaxFramesSubs /\ HandleServiceRegistration(c, "svc-a", now, fail)
  \/ \E c \in Conns, fail1 \in SUBSET OpenClients, fail2 \in SUBSET OpenClients :
       nframes < MaxFramesSubs /\ HandleMetrics(c, "svc-a", now, TRUE, 0, 0, fail1, fail2)
  \/ \E c \in Conns : nframes < MaxFramesSubs /\ SocketCloses(c)
  \/ \E c \in Conns, fail \in SUBSET OpenClients : OnClose(c, fail)

SpecSubs == InitSubs /\ [][NextSubs]_vars

(***************************************************************************)
(* The message codec: an agent connection and dashboard connections that   *)
(* send decodable and undecodable frames.                                  *)
(***************************************************************************)
InitCodec == Started(1)

NextCodec ==
  \/ \E c \in Conns : nframes < MaxFramesCodec /\ Connect(c, TRUE, TRUE)
  \/ \E c \in Conns : nframes < MaxFramesCodec /\ InvalidFrame(c)
  \/ \E c \in Conns : nframes < MaxFramesCodec /\ UnknownType(c)
  \/ \E c \in Conns :
       nframes < MaxFramesCodec /\ HandleServiceRegistration(c, "svc-a", now, {})
  \/ \E c \in Conns, leak \in BOOLEAN :
       nframes < MaxFramesCodec /\ HandleMetrics(c, "svc-a", now, leak, 0, 0, {}, {})

SpecCodec == InitCodec /\ [][NextCodec]_vars

(***************************************************************************)
(* simple-http-server.js alone: uploads and listings.                      *)
(***************************************************************************)
InitHttp == Started(0)

\* What a client puts in the fields of an upload.
ServiceNames == {<<"svc">>, <<>>}
Phases == {<<"before">>, <<"after">>}
Blobs == {"x", "yy"}
RequestFilenames ==
  {NoFilename,
   [isString |-> TRUE, stem |-> <<"leak">>, ext |-> ".heapsnapshot"],
   [isString |-> FALSE, stem |-> <<"5">>, ext |-> ""]}

NextHttp ==
  \/ \E serviceName \in ServiceNames, phase \in Phases, snapshotData \in Blobs,
        filename \in RequestFilenames, fsOk \in BOOLEAN :
       /\ nframes < MaxRequests
       /\ Upload(serviceName, "c1", phase, snapshotData, filename, fsOk)
  \/ nframes < MaxRequests /\ ListSnapshots
  \/ ClockAdvances

SpecHttp == InitHttp /\ [][NextHttp]_vars

(***************************************************************************)
(* The metrics route: metrics messages of "svc-a" stamped by the producer, *)
(* on a server whose ring is empty or one short of its cap, and requests   *)
(* for its samples with and without a limit and a time range.              *)
(***************************************************************************)
InitQuery == InitMetrics

Limits == {NoParam} \cup {Param(L) : L \in 0 .. MaxLimit}
Instants == {NoParam} \cup {Param(t) : t \in ProducerStamps}

NextQuery ==
  \/ \E c \in Conns, timestamp \in ProducerStamps :
       nframes < MaxFramesQuery /\ HandleMetrics(c, "svc-a", timestamp, FALSE, 0, 0, {}, {})
  \/ \E serviceName \in BaseNames, limit \in Limits, from \in Instants, to \in Instants :
       nframes < MaxFramesQuery /\ GetServiceMetrics(serviceName, limit, from, to)

SpecQuery == InitQuery /\ [][NextQuery]_vars

(***************************************************************************)
(* Properties of the snapshot pipeline (checked under SpecSnap).           *)
(***************************************************************************)
StatusPaths ==
  {<<"waiting">>, <<"waiting", "analyzing">>,
   <<"waiting", "analyzing", "completed">>, <<"waiting", "analyzing", "failed">>}

\* C1: the values a comparison session's status takes, in order, are a
\* prefix of waiting, analyzing, then one of completed or failed: no status
\* is entered twice and nothing follows completed or failed.
C1_StatusPath ==
  \A k \in DOMAIN sessionObjs : sessionObjs[k].statusLog \in StatusPaths

\* The chunk indexes received for a snapshot since its last announcement.
ReceivedIndexes(id) == {arrivals[id][i][1] : i \in 1 .. Len(arrivals[id])}

\* C2: a snapshot whose payload has been materialized (and with it written
\* and announced as completed) has seen a snapshot-complete message and
\* every chunk index 0 .. totalChunks-1 since its last announcement.
C2_CompleteOnlyWhenAllChunks ==
  \A id \in DOMAIN snapshots :
     snapshots[id].hasData =>
        /\ completions[id] >= 1
        /\ ReceivedIndexes(id) = 0 .. (snapshots[id].totalChunks - 1)
        /\ snapshots[id].receivedChunks = snapshots[id].totalChunks

\* C3: every snapshot's receivedChunks is at most its totalChunks.
C3_ReceivedAtMostTotal ==
  \A id \in DOMAIN snapshots : snapshots[id].receivedChunks <= snapshots[id].totalChunks

\* The arrivals are N >= 1 chunks whose indexes are 0 .. N-1, each once.
IsPermutation(arr) ==
  /\ Len(arr) >= 1
  /\ {arr[i][1] : i \in 1 .. Len(arr)} = 0 .. (Len(arr) - 1)

\* chunk[i] ++ chunk[i+1] ++ ... ++ chunk[N-1] of a permutation `arr'
RECURSIVE InIndexOrder(_, _)
InIndexOrder(arr, i) ==
  IF i >= Len(arr) THEN ""
  ELSE arr[CHOOSE j \in 1 .. Len(arr) : arr[j][1] = i][2] \o InIndexOrder(arr, i + 1)

\* C4: when snapshot-complete is handled for a snapshot whose chunks since
\* the announcement are a permutation of the indexes 0 .. N-1, the payload
\* materialized and the file persisted are chunk[0] ++ ... ++ chunk[N-1].
C4_PayloadInIndexOrder ==
  \A id \in SnapshotIds :
     (/\ last.op = "snapshot-complete"
      /\ last.key = id
      /\ id \in DOMAIN snapshots
      /\ IsPermutation(arrivals[id]))
     => /\ snapshots[id].data = InIndexOrder(arrivals[id], 0)
        /\ snapshots[id].filename \in DOMAIN files
        /\ files[snapshots[id].filename] = InIndexOrder(arrivals[id], 0)

\* A snapshot of three chunks that arrived out of index order, with
\* differing payloads, has just been completed.
C4_Witness ==
  \E id \in SnapshotIds :
     /\ last.op = "snapshot-complete"
     /\ last.key = id
     /\ id \in DOMAIN snapshots
     /\ IsPermutation(arrivals[id])
     /\ Len(arrivals[id]) = 3
     /\ arrivals[id][1][1] = 2
     /\ arrivals[id][1][2] # arrivals[id][2][2]
     /\ snapshots[id].filename \in DOMAIN files
     /\ files[snapshots[id].filename] = InIndexOrder(arrivals[id], 0)

\* The arrivals without the replays: the first arrival of each index.
FirstArrivals(arr) ==
  SelectSeq([i \in 1 .. Len(arr) |-> <<arr[i][1], arr[i][2], i>>],
            LAMBDA e : \A j \in 1 .. (e[3] - 1) : arr[j][1] # e[1])

\* Every replayed index carries the data of its first arrival.
SameDataReplays(arr) ==
  \A i \in 1 .. Len(arr) : \A j \in 1 .. Len(arr) :
     arr[i][1] = arr[j][1] => arr[i][2] = arr[j][2]

\* C14: when snapshot-complete is handled for a snapshot whose indexes
\* 0 .. N-1 have all arrived, some of them again with the same data, the
\* payload materialized and persisted is the one of the arrivals without
\* the replays.
C14_ReplayKeepsPayload ==
  \A id \in SnapshotIds :
     (/\ last.op = "snapshot-complete"
      /\ last.key = id
      /\ id \in DOMAIN snapshots
      /\ ReceivedIndexes(id) = 0 .. (snapshots[id].totalChunks - 1)
      /\ SameDataReplays(arrivals[id]))
     => /\ snapshots[id].data = InIndexOrder(FirstArrivals(arrivals[id]), 0)
        /\ snapshots[id].filename \in DOMAIN files
        /\ files[snapshots[id].filename] = InIndexOrder(FirstArrivals(arrivals[id]), 0)

\* A snapshot of two chunks with differing data, the first of which was
\* replayed before the second arrived, has just been completed.
C14_Witness ==
  \E id \in SnapshotIds :
     /\ last.op = "snapshot-complete"
     /\ last.key = id
     /\ id \in DOMAIN snapshots
     /\ snapshots[id].totalChunks = 2
     /\ Len(arrivals[id]) = 3
     /\ arrivals[id][1] = arrivals[id][2]
     /\ arrivals[id][3][1] # arrivals[id][1][1]
     /\ arrivals[id][3][2] # arrivals[id][1][2]
     /\ files[snapshots[id].filename] = InIndexOrder(FirstArrivals(arrivals[id]), 0)
     /\ Len(files[snapshots[id].filename]) = 2


\* The data of the last arrival of chunk index `idx' among `arr'.
LastData(arr, idx) ==
  arr[CHOOSE i \in 1 .. Len(arr) :
         /\ arr[i][1] = idx
         /\ \A j \in (i + 1) .. Len(arr) : arr[j][1] # idx][2]

\* C24: the chunk stored at an index is the data of the last arrival of
\* that index (a replay replaces the stored chunk), and receivedChunks is
\* the number of distinct chunk indexes received since the announcement
\* (a replay does not count again).
C24_DuplicateIndexNotCounted ==
  \A id \in DOMAIN snapshots :
     /\ \A idx \in ReceivedIndexes(id) :
           /\ idx + 1 <= Len(snapshots[id].chunks)
           /\ snapshots[id].chunks[idx + 1] =
                 [has |-> TRUE, val |-> LastData(arrivals[id], idx)]
     /\ snapshots[id].receivedChunks = Cardinality(ReceivedIndexes(id))

(***************************************************************************)
(* Properties of the rings (checked under SpecAlerts and SpecMetrics).     *)
(***************************************************************************)

\* C5: the alert sequence never holds more than 100 alerts.
C5_AlertRingBounded == Len(alerts) <= AlertCap

\* C6: every service's metric sequence holds at most 1000 samples, and they
\* are the most recently ingested samples of that service in arrival order.
C6_MetricRingBoundedInArrivalOrder ==
  \A service \in DOMAIN metrics :
     /\ Len(metrics[service]) <= MetricCap
     /\ metrics[service] = SliceLast(ingested[service], Len(metrics[service]))

\* A full ring whose samples arrived with decreasing timestamps.
C6_Witness ==
  /\ "svc-a" \in DOMAIN metrics
  /\ Len(metrics["svc-a"]) = MetricCap
  /\ Len(ingested["svc-a"]) > MetricCap
  /\ metrics["svc-a"][MetricCap - 1].timestamp > metrics["svc-a"][MetricCap].timestamp

\* C7: a metrics message for a service whose sequence holds 1000 samples
\* leaves the sequence without its first element and with the new sample
\* appended.
C7_EvictsExactlyOldest ==
  [][\A service \in BaseNames :
        (/\ last'.op = "metrics"
         /\ last'.key = service
         /\ service \in DOMAIN metrics
         /\ Len(metrics[service]) = MetricCap)
        => metrics'[service] =
              Append(Tail(metrics[service]), ingested'[service][Len(ingested'[service])])]_vars

\* The 1001st sample of "svc-a" has just been ingested.
C7_Witness ==
  /\ last.op = "metrics"
  /\ last.key = "svc-a"
  /\ Len(ingested["svc-a"]) = MetricCap + 1
  /\ Len(metrics["svc-a"]) = MetricCap
  /\ metrics["svc-a"][1] = PriorSample(2)


(***************************************************************************)
(* Properties of registration and liveness (checked under SpecLive).       *)
(***************************************************************************)
Registrations == {"registration", "capture-agent-registration"}

\* The number of serviceUpdate events for `name' among the events `evs'.
RECURSIVE ServiceUpdates(_, _)
ServiceUpdates(evs, name) ==
  IF evs = <<>> THEN 0
  ELSE (IF Head(evs).type = "serviceUpdate" /\ Head(evs).service = name THEN 1 ELSE 0)
       + ServiceUpdates(Tail(evs), name)

\* C8: a service's record references the connection that registered its
\* name last (a registration supersedes the previous holder), and the close
\* of a connection the record does not reference leaves the record as it is
\* and publishes no serviceUpdate for it.
C8_RegistrationSupersedes ==
  [][/\ \A name \in DOMAIN services' :
          /\ holders'[name] # <<>>
          /\ services'[name].connection = holders'[name][Len(holders'[name])]
     /\ last'.op = "close" =>
          \A name \in DOMAIN services :
             services[name].connection # last'.conn =>
                /\ services'[name] = services[name]
                /\ ServiceUpdates(out', name) = 0]_vars

\* Connection 1 registered "svc-a", connection 2 registered it after, and
\* the close of connection 1 has just been handled.
C8_Witness ==
  /\ last.op = "close"
  /\ last.conn = 1
  /\ holders["svc-a"] = <<1, 2>>
  /\ services["svc-a"].connection = 2
  /\ services["svc-a"].status = "connected"
  /\ out = <<>>

\* C9: a sweep disconnects every connected service with
\* now - lastSeen > 60 s and publishes exactly one serviceUpdate for it; it
\* publishes none for any other service and leaves it unchanged; and a
\* disconnected service becomes connected again only by a registration or
\* a metrics message naming it.
C9_SweepDisconnectsOnce ==
  [][\A name \in DOMAIN services :
        /\ last'.op = "sweep" =>
             IF services[name].status = "connected"
                /\ now - services[name].lastSeen > TimeoutMs
             THEN /\ services'[name].status = "disconnected"
                  /\ ServiceUpdates(out', name) = 1
             ELSE /\ services'[name] = services[name]
                  /\ ServiceUpdates(out', name) = 0
        /\ (services[name].status = "disconnected" /\ services'[name].status = "connected")
             => /\ last'.op \in Registrations \cup {"metrics"}
                /\ last'.key = name]_vars

\* A sweep found a service, disconnected by an earlier sweep and silent
\* since on a socket that is still open, and published nothing.
C9_Witness ==
  /\ last.op = "sweep"
  /\ out = <<>>
  /\ \E name \in DOMAIN services :
        /\ services[name].status = "disconnected"
        /\ conn[services[name].connection] = "open"
        /\ now - services[name].lastSeen > TimeoutMs + SweepPeriodMs

\* C26: the step that handles the close of a connection leaves every
\* service whose record references that connection with status
\* disconnected and publishes a serviceUpdate {status: disconnected} for
\* each of them, however many services the connection registered.
C26_CloseDisconnectsAllOwned ==
  [][last'.op = "close" =>
        \A name \in DOMAIN services :
           services[name].connection = last'.conn =>
              /\ services'[name].status = "disconnected"
              /\ \E i \in DOMAIN out' :
                    out'[i] = [type |-> "serviceUpdate", service |-> name,
                               status |-> "disconnected"]]_vars

\* C27: no service has status connected while the connection its record
\* references has been closed (its close was handled).
C27_ConnectedHasLiveProducer ==
  \A name \in DOMAIN services :
     services[name].status = "connected" => conn[services[name].connection] # "closed"

\* C28: the step, a close or a sweep, in which a service goes from
\* connected to disconnected leaves the metric sequences, the alert
\* sequence, and the service's totalAlerts, registeredAt and lastSeen as
\* they were.
C28_DisconnectKeepsRecord ==
  [][\A name \in DOMAIN services :
        (/\ last'.op \in {"close", "sweep"}
         /\ services[name].status = "connected"
         /\ services'[name].status = "disconnected")
        => /\ metrics' = metrics
           /\ alerts' = alerts
           /\ alertCounter' = alertCounter
           /\ services'[name].totalAlerts = services[name].totalAlerts
           /\ services'[name].registeredAt = services[name].registeredAt
           /\ services'[name].lastSeen = services[name].lastSeen]_vars

(***************************************************************************)
(* Properties of the publisher (checked under SpecSubs).                   *)
(***************************************************************************)

\* C10: the first frame sent on a dashboard connection is `initial', and
\* when a publish has run every member of the subscriber set has received
\* its initial frame.
C10_InitialFirst ==
  /\ \A c \in Conns : frames[c] # <<>> => frames[c][1].type = "initial"
  /\ out # <<>> =>
        \A c \in dashboardClients : frames[c] # <<>> /\ frames[c][1].type = "initial"


\* C11: a subscriber whose send raised is out of the subscriber set when the
\* step that published returns; every other open subscriber receives each
\* frame of the step; and no later broadcastToClients call, in the same
\* step or a later one, calls send on a removed subscriber.
C11_FailedSubscriberEvicted ==
  [][/\ raised' \cap dashboardClients' = {}
     /\ \A c \in dashboardClients :
          (conn[c] = "open" /\ c \notin raised') => frames'[c] = frames[c] \o out'
     /\ \A i \in DOMAIN tried' :
          /\ tried'[i].clients \cap raised = {}
          /\ \A j \in 1 .. (i - 1) : tried'[i].clients \cap tried'[j].raised = {}]_vars

\* A send to one subscriber raised in an earlier step, and the step that
\* just ran published a frame that another subscriber received.
C11_Witness ==
  /\ raised # {}
  /\ Len(tried) = 1
  /\ tried[1].raised = {}
  /\ \E d \in tried[1].clients :
        /\ d \in dashboardClients
        /\ frames[d][Len(frames[d])] = out[1]
        /\ \E c \in raised : conn[c] = "open" /\ Len(frames[c]) < Len(frames[d])


\* C13: a subscriber that is in the set before and after a step has
\* received, after the frames it already had, exactly the events the step
\* published, once each and in publication order (nothing when its socket
\* is no longer open).
C13_DeliveredInPublicationOrder ==
  [][\A c \in dashboardClients \cap dashboardClients' :
        frames'[c] = frames[c] \o (IF conn[c] = "open" THEN out' ELSE <<>>)]_vars

\* A leak-flagged metrics message published leakAlert then metricsUpdate,
\* and a subscriber holding `initial' received both in that order.
C13_Witness ==
  /\ last.op = "metrics"
  /\ Len(out) = 2
  /\ out[1].type = "leakAlert"
  /\ out[2].type = "metricsUpdate"
  /\ \E c \in dashboardClients :
        /\ Len(frames[c]) >= 3
        /\ frames[c][1].type = "initial"
        /\ SubSeq(frames[c], Len(frames[c]) - 1, Len(frames[c])) = out

(***************************************************************************)
(* Properties of the message codec (checked under SpecCodec).              *)
(***************************************************************************)

\* C22: the step that handles an undecodable frame appends the error frame
\* {error: "Invalid JSON message"} to the frames sent on that connection and
\* to no other, leaves the connection open, leaves services, metrics,
\* alerts, snapshots, sessions and the subscriber set as they are and
\* publishes nothing; and the connection still has its next frame handled.
C22_UndecodableFrameAnswered ==
  [][/\ last'.op = "invalid-json" =>
          /\ frames' = [frames EXCEPT ![last'.conn] =
                Append(@, [type |-> "error", error |-> "Invalid JSON message"])]
          /\ conn' = conn
          /\ conn'[last'.conn] = "open"
          /\ UNCHANGED <<services, svcOrder, metrics, alerts, alertCounter, snapshots,
                         comparisonSessions, sessionObjs, dashboardClients, files>>
          /\ out' = <<>>
     /\ (last.op = "invalid-json" /\ nframes < MaxFramesCodec) =>
          ENABLED HandleServiceRegistration(last.conn, "svc-a", now, {})]_vars

\* An undecodable frame on the agent connection was answered while a
\* dashboard was subscribed, and the registration the agent sent next on
\* the same connection has been handled and published.
C22_Witness ==
  /\ last.op = "registration"
  /\ last.conn = 1
  /\ frames[1] = <<ErrorFrame>>
  /\ "svc-a" \in DOMAIN services
  /\ services["svc-a"].connection = 1
  /\ \E d \in dashboardClients :
        /\ Len(frames[d]) = 2
        /\ frames[d][2].type = "serviceRegistered"

(***************************************************************************)
(* Properties of simple-http-server.js (checked under SpecHttp).           *)
(***************************************************************************)

\* C23: when GET /api/snapshots has been answered, every upload that was
\* answered with success, and whose id no later upload used, is in the
\* list returned, under the id returned to the uploader, with the phase
\* uploaded and the length of the snapshotData uploaded as size.
C23_UploadThenList ==
  last.op = "list" =>
     \A i \in DOMAIN acked :
        ~acked[i].replaced =>
           /\ response.status = 200
           /\ \E j \in DOMAIN response.snapshots :
                 /\ response.snapshots[j].id = acked[i].snapshotId
                 /\ response.snapshots[j].phase = acked[i].phase
                 /\ response.snapshots[j].size = Len(acked[i].snapshotData)

\* C29: when a step that published returns, every member of the subscriber
\* set was in the open state when the publish visited it: a subscriber
\* that was not open has been removed by the publish.
C29_NotOpenSubscriberRemoved ==
  [][tried' # <<>> => \A c \in dashboardClients' : conn[c] = "open"]_vars

(***************************************************************************)
(* Properties of the comparison sessions.                                  *)
(***************************************************************************)

\* The messages whose handler always writes to the session store.
StoreOps ==
  {"registration", "capture-agent-registration", "metrics", "snapshot",
   "snapshot-metadata", "comparison-ready"}

\* C12: the effects of two messages of one connection are applied in
\* arrival order: while the analysis of a comparison-ready is running, so
\* that its status, result and alert are still to be written, no later
\* message of the same connection has written to the session store.
C12_EffectsInArrivalOrder ==
  \A k \in DOMAIN sessionObjs :
     (/\ sessionObjs[k].status = "analyzing"
      /\ last.op \in StoreOps
      /\ last.conn = sessionObjs[k].sender)
     => (last.op = "comparison-ready" /\ last.key = k)


\* A snapshot is complete: a snapshot-complete message was handled for it
\* and every chunk index 0 .. totalChunks-1 has arrived since its
\* announcement.
IsComplete(id) ==
  /\ id \in DOMAIN snapshots
  /\ completions[id] >= 1
  /\ ReceivedIndexes(id) = 0 .. (snapshots[id].totalChunks - 1)

\* C15: a comparison-ready that references a snapshot that is not complete
\* publishes exactly one comparisonPending for its session, whose flags
\* tell which snapshot is not complete, and leaves the session waiting (no
\* comparisonStarted, no analysis).
C15_PendingWhenIncomplete ==
  \A k \in DOMAIN sessionObjs :
     (last.op = "comparison-ready" /\ last.key = k) =>
        LET session == sessionObjs[k]
            before == ~IsComplete(session.beforeSnapshotId)
            after == ~IsComplete(session.afterSnapshotId)
        IN (before \/ after) =>
              /\ out = <<[type |-> "comparisonPending", sessionId |-> session.id,
                          before |-> before, after |-> after]>>
              /\ session.status = "waiting"
              /\ session.statusLog = <<"waiting">>


\* C21: a session that is waiting while both snapshots it references are
\* complete and hold their payload (the missing one completed after the
\* comparison-ready) is revisited: it eventually proceeds to analyzing.
C21_WaitingSessionRevisited ==
  \A k \in 1 .. MaxFramesSnap :
     (/\ k \in DOMAIN sessionObjs
      /\ sessionObjs[k].status = "waiting"
      /\ IsComplete(sessionObjs[k].beforeSnapshotId)
      /\ IsComplete(sessionObjs[k].afterSnapshotId)
      /\ DataAvailable(sessionObjs[k].beforeSnapshotId)
      /\ DataAvailable(sessionObjs[k].afterSnapshotId))
     ~> (/\ k \in DOMAIN sessionObjs
         /\ \E i \in DOMAIN sessionObjs[k].statusLog :
               sessionObjs[k].statusLog[i] = "analyzing")


\* C16: a session whose analysis succeeded (its result is stored) has
\* status completed, and the step that stored the result published one
\* comparisonCompleted for it and no comparisonFailed.
C16_SuccessEndsCompleted ==
  \A k \in DOMAIN sessionObjs :
     sessionObjs[k].hasResult =>
        /\ sessionObjs[k].status = "completed"
        /\ sessionObjs[k].statusLog = <<"waiting", "analyzing", "completed">>
        /\ (last.op = "analysis-settled" /\ last.key = k) =>
              /\ Len(out) = 1
              /\ out[1].type = "comparisonCompleted"
              /\ out[1].sessionId = sessionObjs[k].id


\* All of `s' but its last element.
Front(s) == SubSeq(s, 1, Len(s) - 1)

\* C17: the step in which an analysis completes with suspiciousGrowth true
\* records exactly one alert: a leak alert for the session's service, of
\* severity critical when totalGrowthMB > 50 and warning otherwise; with
\* suspiciousGrowth false the alert sequence is left as it is.
C17_AlertOnSuspiciousGrowth ==
  [][\A k \in DOMAIN sessionObjs' :
        (/\ last'.op = "analysis-settled"
         /\ last'.key = k
         /\ sessionObjs'[k].hasResult)
        => LET summary == sessionObjs'[k].result.summary
           IN IF summary.suspiciousGrowth
              THEN /\ alerts' # <<>>
                   /\ Front(alerts') = SliceLast(alerts, Len(alerts') - 1)
                   /\ alerts'[Len(alerts')].type = "leak"
                   /\ alerts'[Len(alerts')].service = sessionObjs'[k].serviceName
                   /\ alerts'[Len(alerts')].severity =
                         (IF summary.hasTotalGrowthMB /\ summary.totalGrowthMB > CriticalGrowthMB
                          THEN "critical" ELSE "warning")
                   /\ Len(alerts') \in {Len(alerts) + 1, AlertCap}
              ELSE alerts' = alerts]_vars


C20_IndependentSessions ==
  /\ Cardinality(DOMAIN comparisonSessions) = Len(sessionObjs)
  /\ \A k \in DOMAIN sessionObjs :
        /\ sessionObjs[k].id \in DOMAIN comparisonSessions
        /\ comparisonSessions[sessionObjs[k].id] = k

\* C30: when the analysis run of a session has just ended, by returning a
\* result or by raising, neither of its two scratch files is left in the
\* temp directory.
C30_ScratchFilesDeleted ==
  \A k \in DOMAIN sessionObjs :
     (/\ last.op \in {"analysis-started", "analysis-settled"}
      /\ last.key = k
      /\ sessionObjs[k].stage = "done")
     => /\ BeforePath(sessionObjs[k]) \notin scratch
        /\ AfterPath(sessionObjs[k]) \notin scratch

(***************************************************************************)
(* Properties of metric ingestion (checked under SpecMetrics).             *)
(***************************************************************************)

\* The number of events of type `type' among the events `evs'.
RECURSIVE Published(_, _)
Published(evs, type) ==
  IF evs = <<>> THEN 0
  ELSE (IF Head(evs).type = type THEN 1 ELSE 0) + Published(Tail(evs), type)

\* C19: a metrics message for a registered service publishes one
\* metricsUpdate; with leakDetected true it also publishes one leakAlert of
\* severity critical, records that one alert at the end of the alert
\* sequence and adds 1 to the service's totalAlerts; with leakDetected
\* false it leaves the alert sequence and totalAlerts as they are.
C19_LeakFlaggedMetric ==
  [][\A service \in BaseNames :
        (/\ last'.op = "metrics"
         /\ last'.key = service
         /\ service \in DOMAIN services)
        => LET sample == ingested'[service][Len(ingested'[service])]
           IN /\ Published(out', "metricsUpdate") = 1
              /\ IF sample.leakDetected
                 THEN /\ Len(out') = 2
                      /\ \E i \in 1 .. 2 :
                            /\ out'[i].type = "leakAlert"
                            /\ out'[i].alert.severity = "critical"
                            /\ out'[i].alert.service = service
                            /\ alerts'[Len(alerts')] = out'[i].alert
                      /\ Front(alerts') = SliceLast(alerts, Len(alerts') - 1)
                      /\ Len(alerts') \in {Len(alerts) + 1, AlertCap}
                      /\ services'[service].totalAlerts = services[service].totalAlerts + 1
                 ELSE /\ Len(out') = 1
                      /\ alerts' = alerts
                      /\ services'[service].totalAlerts = services[service].totalAlerts]_vars

\* A second leak-flagged metrics message for the registered "svc-a" has
\* just been ingested.
C19_Witness ==
  /\ last.op = "metrics"
  /\ last.key = "svc-a"
  /\ "svc-a" \in DOMAIN services
  /\ services["svc-a"].totalAlerts = 2
  /\ Len(alerts) = 2
  /\ Len(out) = 2
  /\ out[1].type = "leakAlert"
  /\ alerts[2] = out[1].alert

(***************************************************************************)
(* Properties of an early completion (checked under SpecSnap).             *)
(***************************************************************************)

\* Every chunk index of the snapshot has arrived since its announcement.
AllChunksIn(id) == ReceivedIndexes(id) = 0 .. (snapshots[id].totalChunks - 1)

\* C25: a snapshot-complete handled for an announced snapshot that still
\* misses a chunk materializes no payload, writes no file and publishes
\* nothing; and the chunk that arrives last after such a completion
\* makes the snapshot complete: the payload in index order is stored and
\* written to its file, and one snapshotCompleted is published.
C25_EarlyCompletionReconciled ==
  [][\A id \in DOMAIN snapshots :
        /\ (/\ last'.op = "snapshot-complete"
            /\ last'.key = id
            /\ ~AllChunksIn(id))
           => /\ snapshots' = snapshots
              /\ files' = files
              /\ out' = <<>>
        /\ (/\ last'.op = "snapshot-chunk"
            /\ last'.key = id
            /\ completions[id] >= 1
            /\ ~AllChunksIn(id)
            /\ AllChunksIn(id)')
           => /\ snapshots'[id].hasData
              /\ snapshots'[id].data = JoinChunks(snapshots'[id].chunks)
              /\ snapshots'[id].filename \in DOMAIN files'
              /\ files'[snapshots'[id].filename] = snapshots'[id].data
              /\ Published(out', "snapshotCompleted") = 1]_vars

(***************************************************************************)
(* Properties of disconnection events (checked under SpecLive).            *)
(***************************************************************************)

\* C32: a serviceUpdate {status: disconnected} is published for a service
\* only by a step in which that service's status goes from connected to
\* disconnected, whether the step is a liveness sweep or the close of a
\* connection.
C32_DisconnectPublishedOnChange ==
  [][\A name \in DOMAIN services :
        (\E i \in DOMAIN out' :
            out'[i] = [type |-> "serviceUpdate", service |-> name,
                       status |-> "disconnected"])
        => /\ services[name].status = "connected"
           /\ services'[name].status = "disconnected"]_vars

(***************************************************************************)
(* Properties of unknown message types (checked under SpecCodec).          *)
(***************************************************************************)

\* C33: the step that handles a decodable frame whose type is none of the
\* eight known ones sends one more frame on that connection, an error
\* frame, and leaves the connection open.
C33_UnknownTypeAnswered ==
  [][last'.op = "unknown-type" =>
        /\ Len(frames'[last'.conn]) = Len(frames[last'.conn]) + 1
        /\ frames'[last'.conn][Len(frames'[last'.conn])].type = "error"
        /\ conn'[last'.conn] = "open"]_vars

(***************************************************************************)
(* Properties of alert publication and alert identifiers (checked under    *)
(* SpecAlerts).                                                            *)
(***************************************************************************)

\* C36: a step that changes the alert sequence publishes the alert it
\* appended, the last of the sequence, as a leakAlert or snapshotAlert
\* event.
C36_AppendedAlertPublished ==
  [][alerts' # alerts =>
        \E i \in DOMAIN out' :
           /\ out'[i].type \in {"leakAlert", "snapshotAlert"}
           /\ out'[i].alert = alerts'[Len(alerts')]]_vars

\* The number an alert identifier denotes, in tenths: identifiers are pairs
\* of an integer part and a fraction in tenths.
IdValue(id) == id[1] * 10 + id[2]

\* C37: the alert a step appends to the alert sequence has an identifier
\* that is not smaller than that of the alert recorded before it (the
\* least that identifiers growing strictly in recording order require),
\* whichever of the three producers recorded either.
C37_AlertIdsMonotonic ==
  [][(alerts' # alerts /\ alerts # <<>>) =>
        IdValue(alerts'[Len(alerts')].id) >= IdValue(alerts[Len(alerts)].id)]_vars

(***************************************************************************)
(* Properties of the per-service alert counter (checked under SpecMetrics).*)
(***************************************************************************)

\* C40: no step lowers the totalAlerts of a service that has a record.
C40_TotalAlertsNeverDecreases ==
  [][\A name \in DOMAIN services :
        /\ name \in DOMAIN services'
        /\ services'[name].totalAlerts >= services[name].totalAlerts]_vars

(***************************************************************************)
(* Properties of a producer that keeps sending (checked under SpecBeat,    *)
(* where the metrics messages of "svc-a" are at most 30 s of server time   *)
(* apart).                                                                 *)
(***************************************************************************)

\* C31: no sweep marks a connected service disconnected while its
\* producer keeps sending metrics messages less than 60 s of server time
\* apart, whatever timestamps the messages carry.
C31_HeardServiceStaysConnected ==
  [][last'.op = "sweep" =>
        \A name \in DOMAIN services :
           services[name].status = "connected" => services'[name].status = "connected"]_vars

(***************************************************************************)
(* Properties of messages for unannounced snapshots (checked under         *)
(* SpecStray).                                                             *)
(***************************************************************************)

\* C34: the step that handles a snapshot-chunk or a snapshot-complete
\* whose snapshotId names no announced snapshot leaves the snapshot table,
\* the services, metrics, alerts, sessions and the subscriber set as they
\* are, writes no snapshot file and no scratch file, publishes no event
\* and sends no frame on any connection, and leaves the connection open.
C34_UnannouncedDropped ==
  [][(/\ last'.op \in {"snapshot-chunk", "snapshot-complete"}
      /\ last'.key \notin DOMAIN snapshots)
     => /\ UNCHANGED <<snapshots, services, svcOrder, metrics, alerts, alertCounter,
                       comparisonSessions, sessionObjs, dashboardClients, files,
                       scratch, frames, conn>>
        /\ out' = <<>>]_vars

\* A snapshot-complete for after_2, never announced, was handled while
\* before_1 was announced and holds a chunk: nothing is stored for
\* after_2, and there is no file, no event and no frame.
C34_Witness ==
  /\ last.op = "snapshot-complete"
  /\ last.key = "after_2"
  /\ DOMAIN snapshots = {"before_1"}
  /\ snapshots["before_1"].receivedChunks = 1
  /\ arrivals["after_2"] = <<>>
  /\ completions["after_2"] = 0
  /\ files = EmptyMap
  /\ out = <<>>
  /\ \A c \in Conns : frames[c] = <<>>

(***************************************************************************)
(* Properties of a re-announced snapshot (checked under SpecAgain).        *)
(***************************************************************************)

\* The payload of the arrivals `arr': for each index from `i' up to the
\* greatest one that arrived, the data of its last arrival, in index
\* order, an index that did not arrive contributing nothing.
RECURSIVE PayloadFrom(_, _)
PayloadFrom(arr, i) ==
  IF \A j \in 1 .. Len(arr) : arr[j][1] < i THEN ""
  ELSE (IF \E j \in 1 .. Len(arr) : arr[j][1] = i THEN LastData(arr, i) ELSE "")
       \o PayloadFrom(arr, i + 1)

\* C35: the step that handles a snapshot-metadata for an id that exists
\* leaves the snapshot with an empty chunk table, receivedChunks 0 and no
\* payload; and the payload a later snapshot-complete materializes and
\* writes to the snapshot's file is made of the chunks that arrived since
\* that announcement only.
C35_ReannouncementReplaces ==
  [][\A id \in DOMAIN snapshots :
        /\ (last'.op = "snapshot-metadata" /\ last'.key = id)
           => /\ snapshots'[id].chunks = <<>>
              /\ snapshots'[id].receivedChunks = 0
              /\ ~snapshots'[id].hasData
        /\ (last'.op = "snapshot-complete" /\ last'.key = id)
           => /\ snapshots'[id].hasData
              /\ snapshots'[id].data = PayloadFrom(arrivals[id], 0)
              /\ files'[snapshots'[id].filename] = PayloadFrom(arrivals[id], 0)]_vars

\* before_1, completed with the payload "x" of its first announcement, was
\* announced again under the other filename with two chunks, received
\* chunk 1 = "y" only, and was completed: its payload and its new file
\* are "y", and the file of its first announcement still holds "x".
C35_Witness ==
  /\ last.op = "snapshot-complete"
  /\ last.key = "before_1"
  /\ snapshots["before_1"].filename = "a.heapsnapshot"
  /\ snapshots["before_1"].totalChunks = 2
  /\ arrivals["before_1"] = <<<<1, "y">>>>
  /\ snapshots["before_1"].receivedChunks = 1
  /\ snapshots["before_1"].data = "y"
  /\ files["a.heapsnapshot"] = "y"
  /\ files["b.heapsnapshot"] = "x"

(***************************************************************************)
(* Properties of the initial frame (checked under SpecInitial).            *)
(***************************************************************************)

\* C38: the frame sent to a dashboard when it subscribes is an `initial'
\* frame that lists each service whose status is connected once and no
\* other service, each with the sample stored last for it or with none
\* when no sample is stored, and that lists the min(10, n) alerts recorded
\* last of the n alerts stored, the most recent first.
C38_InitialListsConnectedAndRecent ==
  [][(last'.op = "connection" /\ last'.key = "dashboard") =>
        LET sent == frames'[last'.conn]
            f == sent[Len(sent)]
            connected == {name \in DOMAIN services : services[name].status = "connected"}
            n == Len(alerts)
        IN /\ Len(sent) = Len(frames[last'.conn]) + 1
           /\ f.type = "initial"
           /\ {f.services[i].name : i \in 1 .. Len(f.services)} = connected
           /\ Len(f.services) = Cardinality(connected)
           /\ \A i \in 1 .. Len(f.services) :
                 LET name == f.services[i].name
                     stored == IF name \in DOMAIN metrics THEN metrics[name] ELSE <<>>
                 IN IF stored = <<>>
                    THEN ~f.services[i].lastMetrics.present
                    ELSE /\ f.services[i].lastMetrics.present
                         /\ f.services[i].lastMetrics.sample = stored[Len(stored)]
           /\ Len(f.alerts) = (IF n < RecentAlertLimit THEN n ELSE RecentAlertLimit)
           /\ \A i \in 1 .. Len(f.alerts) : f.alerts[i] = alerts[n - i + 1]]_vars

\* A dashboard subscribed when svc-a was disconnected and svc-b connected
\* with one sample stored, a flagged one, and 100 alerts stored: its
\* initial frame lists svc-b alone with that sample, and ten alerts, the
\* leak alert of svc-b first and older alerts after it.
C38_Witness ==
  /\ last.op = "connection"
  /\ last.key = "dashboard"
  /\ {"svc-a", "svc-b"} \subseteq DOMAIN services
  /\ services["svc-a"].status = "disconnected"
  /\ services["svc-b"].status = "connected"
  /\ Len(metrics["svc-b"]) = 1
  /\ Len(alerts) = AlertCap
  /\ LET f == frames[last.conn][1]
     IN /\ Len(f.services) = 1
        /\ f.services[1].name = "svc-b"
        /\ f.services[1].lastMetrics.present
        /\ f.services[1].lastMetrics.sample.leakDetected
        /\ Len(f.alerts) = RecentAlertLimit
        /\ f.alerts[1].type = "leak"
        /\ f.alerts[1].service = "svc-b"
        /\ f.alerts[2].type = "snapshot"

(***************************************************************************)
(* Properties of the metrics route (checked under SpecQuery).              *)
(***************************************************************************)

\* C39: the answer to GET /api/services/:name/metrics with limit L (100
\* when none is given) reports as total the number n of stored samples of
\* the service whose timestamp lies in the range of the `from' and `to'
\* given, and returns the last min(L, n) of them in arrival order, never
\* more than L samples.
C39_LastOfRangeWithinLimit ==
  last.op = "get-metrics" =>
     LET request == last.key
         stored == IF request.serviceName \in DOMAIN metrics
                   THEN metrics[request.serviceName] ELSE <<>>
         inRange == SelectSeq(stored,
                      LAMBDA m : /\ request.from.given => request.from.value <= m.timestamp
                                 /\ request.to.given => m.timestamp <= request.to.value)
         n == Len(inRange)
         L == IF request.limit.given THEN request.limit.value ELSE DefaultLimit
     IN /\ response.total = n
        /\ response.metrics = SliceLast(inRange, IF L < n THEN L ELSE n)
        /\ Len(response.metrics) <= L

=============================================================================
